---- MODULE Spec2Model ----
(***************************************************************************)
(* Sensum command dispatch pipeline: CommandRunner.run, the Conditions     *)
(* gates, buildCommandContext, the CooldownManager store with its eviction *)
(* timers and the transient feedback helper.                               *)
(*                                                                         *)
(* Message text and names are sequences of one-character strings, so that  *)
(* trimming, lowercasing, whitespace collapsing and splitting are computed *)
(* the way the source computes them.  Time is in milliseconds.             *)
(***************************************************************************)
EXTENDS Integers, Sequences, FiniteSets, TLC

(***************************************************************************)
(* Bounds of the model.                                                    *)
(***************************************************************************)
\* the clock advances in steps of TickMs up to MaxTicks steps
MaxTicks == 1
TickMs == 5000
\* message events delivered in one behaviour
MaxMessages == 3
\* registered prefix checkers / context extenders range over 0..Max
MaxCheckers == 1
MaxExtenders == 1
\* most prefix checkers registered where prefix resolution is examined
MaxPrefixCheckers == 2
\* longest permission tier list given to permlevel
MaxTiers == 2
\* longest generated message content given to the prefix validation
MaxContentLen == 3
\* longest generated text after the prefix given to splitCommandAndArguments
MaxBodyLen == 3
\* pipeline runs in flight: one slot per message, reused by a later message
\* once its run has completed.  Spec delivers the messages of Messages one
\* after the other (slot "r1"); SpecConcurrent delivers the messages of
\* Rivals to both slots, so that two runs are in flight together.
Runs == {"r1", "r2"}

(***************************************************************************)
(* Character sequences.                                                    *)
(***************************************************************************)
IsWs(c) == c \in {" ", "\n", "\t"}

Lower(c) ==
  CASE c = "P" -> "p"
    [] c = "E" -> "e"
    [] c = "X" -> "x"
    [] c = "T" -> "t"
    [] OTHER -> c

\* String.prototype.toLowerCase
ToLower(s) == [i \in 1..Len(s) |-> Lower(s[i])]

RECURSIVE TrimLeft(_)
TrimLeft(s) == IF s # <<>> /\ IsWs(Head(s)) THEN TrimLeft(Tail(s)) ELSE s

RECURSIVE TrimRight(_)
TrimRight(s) ==
  IF s # <<>> /\ IsWs(s[Len(s)]) THEN TrimRight(SubSeq(s, 1, Len(s) - 1)) ELSE s

\* String.prototype.trim
Trim(s) == TrimRight(TrimLeft(s))

\* String.prototype.startsWith
StartsWith(s, p) == Len(p) <= Len(s) /\ SubSeq(s, 1, Len(p)) = p

\* String.prototype.substr(n)
Substr(s, n) == IF n >= Len(s) THEN <<>> ELSE SubSeq(s, n + 1, Len(s))

\* length of the maximal run of whitespace at the head of s
RECURSIVE WsRun(_)
WsRun(s) == IF s # <<>> /\ IsWs(Head(s)) THEN 1 + WsRun(Tail(s)) ELSE 0

\* s.replace(/\s\s+/g, ' ')
RECURSIVE CollapseSpaces(_)
CollapseSpaces(s) ==
  IF s = <<>> THEN <<>>
  ELSE IF WsRun(s) >= 2 THEN <<" ">> \o CollapseSpaces(Substr(s, WsRun(s)))
  ELSE <<Head(s)>> \o CollapseSpaces(Tail(s))

\* s.replace(/(\s\s+|\n)/g, ' ')
RECURSIVE CollapseSpacesAndNewlines(_)
CollapseSpacesAndNewlines(s) ==
  IF s = <<>> THEN <<>>
  ELSE IF WsRun(s) >= 2
    THEN <<" ">> \o CollapseSpacesAndNewlines(Substr(s, WsRun(s)))
  ELSE IF Head(s) = "\n" THEN <<" ">> \o CollapseSpacesAndNewlines(Tail(s))
  ELSE <<Head(s)>> \o CollapseSpacesAndNewlines(Tail(s))

\* length of the maximal run of ' ' at the head of s
RECURSIVE SpaceRun(_)
SpaceRun(s) == IF s # <<>> /\ Head(s) = " " THEN 1 + SpaceRun(Tail(s)) ELSE 0

\* s.split(/ +/), cur is the token being read
RECURSIVE SplitFrom(_, _)
SplitFrom(s, cur) ==
  IF s = <<>> THEN <<cur>>
  ELSE IF Head(s) = " " THEN <<cur>> \o SplitFrom(Substr(s, SpaceRun(s)), <<>>)
  ELSE SplitFrom(Tail(s), Append(cur, Head(s)))

SplitSpaces(s) == SplitFrom(s, <<>>)

\* Array.prototype.join(' ')
RECURSIVE JoinSpaces(_)
JoinSpaces(ts) ==
  IF ts = <<>> THEN <<>>
  ELSE IF Len(ts) = 1 THEN ts[1]
  ELSE ts[1] \o <<" ">> \o JoinSpaces(Tail(ts))

(***************************************************************************)
(* Pattern matcher: stringMatch.                                           *)
(***************************************************************************)
\* the characters removed by the punctuation class of stringMatch (the
\* backquote, also in the class, is not a character of any modelled text)
Punctuation ==
  { ".", ",", "/", "#", "!", "$", "%", "^", "&", "*", ";", ":", "{", "}", "=",
    "-", "_", "~", "(", ")", "?" }
RemovePunctuation(s) == SelectSeq(s, LAMBDA ch : ch \notin Punctuation)

\* the content of the message as it is tested: punctuation removed, runs
\* of two or more whitespace characters replaced by one space, lower-cased
NormalContent(content) == ToLower(CollapseSpaces(RemovePunctuation(content)))

\* COMMON_EXPRESSIONS: the strings each expression matches in full
E_yes ==
  { <<"y">>, <<"y", "e", "s">>, <<"y", "e">>, <<"y", "e", "a", "h">>,
    <<"y", "e", "p">>, <<"i", "n", "d", "e", "e", "d">>,
    <<"c", "o", "r", "r", "e", "c", "t">>, <<"m", "h", "m">>,
    <<"s", "u", "r", "e">>, <<"o", "k">>, <<"o", "k", "a", "y">>,
    <<"a", "l", "r", "i", "g", "h", "t">>,
    <<"a", "l", "r", "i", "g", "h", "t", "y">>,
    <<"w", "h", "y", " ", "n", "o", "t">> }
E_no ==
  { <<"n", "o">>, <<"n", "a">>, <<"n", "a", "h">>,
    <<"n", "o", "t", " ", "r", "e", "a", "l", "l", "y">>,
    <<"n", "o", "p", "e">> }
E_action ==
  { <<"w", "a", "n", "t">>, <<"w", "a", "n", "n", "a">>,
    <<"g", "o", "n", "n", "a">>, <<"g", "o", "i", "n", "g", " ", "t", "o">>,
    <<"w", "i", "l", "l">> }
E_be ==
  { <<"i", "'", "m">>, <<"a", "m">>, <<"w", "a", "s">>,
    <<"w", "i", "l", "l", " ", "b", "e">>, <<"a", "r", "e">>,
    <<"w", "e", "r", "e">>, <<"i", "s">>, <<"b", "e">> }
E_meSuffixes ==
  { <<"'", "m">>, <<"m">>, <<"'", "v", "e">>, <<"'", "l", "l">>,
    <<"l", "l">>, <<"m", "m", "a">> }
\* ('m|m|'ve|'ll|ll|mma)*
RECURSIVE MeSuffixStar(_)
MeSuffixStar(s) ==
  \/ s = <<>>
  \/ \E x \in E_meSuffixes : StartsWith(s, x) /\ MeSuffixStar(Substr(s, Len(x)))

K_me == <<"m", "e">>
K_action == <<"a", "c", "t", "i", "o", "n">>
K_yes == <<"y", "e", "s">>
K_no == <<"n", "o">>
K_be == <<"b", "e">>
ExpressionNames == {K_me, K_action, K_yes, K_no, K_be}

\* commonWord: the key looked up in COMMON_EXPRESSIONS for a placeholder
ExpressionKey(placeholder) == Trim(SelectSeq(placeholder, LAMBDA ch : ch \notin {"{", "}"}))

\* commonWord(placeholder) for a string: the expression of that name, or
\* the placeholder itself
commonWord(placeholder) ==
  IF ExpressionKey(placeholder) \in ExpressionNames
  THEN [expression |-> TRUE, source |-> ExpressionKey(placeholder)]
  ELSE [expression |-> FALSE, source |-> placeholder]

\* the regular expression w (an expression of COMMON_EXPRESSIONS, or a
\* word without regular expression syntax) matches the string s in full
MatchesInFull(w, s) ==
  IF ~w.expression THEN s = w.source
  ELSE CASE w.source = K_yes -> s \in E_yes
         [] w.source = K_no -> s \in E_no
         [] w.source = K_action -> s \in E_action
         [] w.source = K_be -> s \in E_be
         [] OTHER -> s # <<>> /\ Head(s) = "i" /\ MeSuffixStar(Tail(s))

\* \s+ matches a stretch of the content that ends at position i / that
\* starts at position j + 1
WsBefore(content, i) == i >= 1 /\ IsWs(content[i])
WsAfter(content, j) == j < Len(content) /\ IsWs(content[j + 1])

\* content.match(makeRegex(w)), makeRegex(w) being
\* (\s+w\s+|\s+w$|^w\s+|^w$): w matches the stretch i+1..j
MatchRegex(content, w) ==
  \E i \in 0..Len(content) : \E j \in i..Len(content) :
    /\ MatchesInFull(w, SubSeq(content, i + 1, j))
    /\ \/ WsBefore(content, i) /\ WsAfter(content, j)
       \/ WsBefore(content, i) /\ j = Len(content)
       \/ i = 0 /\ WsAfter(content, j)
       \/ i = 0 /\ j = Len(content)

\* an array of words of which one, not every one, has to be in the content
stringMatch_AnyWord(content, words) ==
  IF words.array
  THEN \E k \in 1..Len(words.tokens) :
         MatchRegex(NormalContent(content), commonWord(words.tokens[k]))
  ELSE MatchRegex(NormalContent(content), commonWord(words.tokens[1]))

\* stringMatch(message, words), words being a string (array = FALSE, one
\* token) or an array of strings
stringMatch(content, words) ==
  IF words.array
  THEN \A k \in 1..Len(words.tokens) :
         MatchRegex(NormalContent(content), commonWord(words.tokens[k]))
  ELSE MatchRegex(NormalContent(content), commonWord(words.tokens[1]))

(***************************************************************************)
(* Configuration: users, channels, permission tiers, command registry.     *)
(***************************************************************************)
Users == {"u1", "own", "bot"}
OwnerId == "own"
Channels == {"txt", "nsfw", "dm"}

AuthorIsBot(u) == u = "bot"
ChannelType(c) == IF c = "dm" THEN "DM" ELSE "GUILD_TEXT"
ChannelNsfw(c) == c = "nsfw"
GuildOf(c) == IF c = "dm" THEN "none" ELSE "g1"
GuildOwner(g) == IF g = "g1" THEN OwnerId ELSE "nobody"

DefaultPrefix == <<"!">>
\* the prefix a custom prefix checker answers with
CustomPrefix == <<"?">>

NoName == <<>>
N_ping == <<"p", "i", "n", "g">>
N_p == <<"p">>
N_eval == <<"e", "v", "a", "l">>
N_sec == <<"s", "e", "c">>
N_lewd == <<"l", "e", "w", "d">>
N_Tag == <<"T", "a", "g">>
N_t == <<"t">>
A_code == <<"c", "o", "d", "e">>

USER == 0
SERVER_OWNER == 5
BOT_SUPPORT == 8
BOT_OWNER == 10

DefaultCooldown == 3
FeedbackDelay == 5000

\* bot.commands: name -> Command (fields of ICommandOptions that the
\* pipeline reads; cooldown in seconds, args = the schema's keys in order)
CommandNames == {N_ping, N_eval, N_sec, N_lewd, N_Tag}
commands ==
  [n \in CommandNames |->
     CASE n = N_ping ->
            [name |-> N_ping, permission |-> USER, cooldown |-> 5,
             runIn |-> {"text"}, hidden |-> FALSE, args |-> <<>>,
             delete |-> FALSE, nsfwOnly |-> FALSE]
       [] n = N_eval ->
            [name |-> N_eval, permission |-> BOT_OWNER, cooldown |-> DefaultCooldown,
             runIn |-> {"text", "dm"}, hidden |-> FALSE, args |-> <<A_code>>,
             delete |-> TRUE, nsfwOnly |-> FALSE]
       [] n = N_sec ->
            [name |-> N_sec, permission |-> BOT_OWNER, cooldown |-> 1,
             runIn |-> {"dm"}, hidden |-> TRUE, args |-> <<>>,
             delete |-> FALSE, nsfwOnly |-> FALSE]
       [] n = N_lewd ->
            [name |-> N_lewd, permission |-> BOT_SUPPORT, cooldown |-> 0,
             runIn |-> {"text"}, hidden |-> FALSE, args |-> <<>>,
             delete |-> FALSE, nsfwOnly |-> TRUE]
       [] n = N_Tag ->
            [name |-> N_Tag, permission |-> USER, cooldown |-> DefaultCooldown,
             runIn |-> {"text"}, hidden |-> FALSE, args |-> <<>>,
             delete |-> FALSE, nsfwOnly |-> FALSE]]

\* bot.aliases: alias -> name
AliasNames == {N_p, N_t}
aliases == [a \in AliasNames |-> IF a = N_t THEN N_Tag ELSE N_ping]

\* config.permLevels (BOT_SUPPORT is deliberately not configured)
permLevels ==
  << [level |-> USER, name |-> "User", check |-> "always"],
     [level |-> SERVER_OWNER, name |-> "Server Owner", check |-> "guildOwner"],
     [level |-> BOT_OWNER, name |-> "Bot Owner", check |-> "botOwner"] >>

\* IPermissionLevel.check(message), by the kind of check of the tier
TierCheck(check, m) ==
  CASE check = "always" -> TRUE
    [] check = "guildOwner" ->
         ChannelType(m.channel) = "GUILD_TEXT" /\ GuildOwner(GuildOf(m.channel)) = m.author
    [] check = "botOwner" -> OwnerId = m.author
    [] OTHER -> FALSE

\* permLevels.slice(0).sort((p, c) => (p.level < c.level ? 1 : -1)):
\* the tier of greatest level first
RECURSIVE SortDesc(_)
SortDesc(tiers) ==
  IF tiers = <<>> THEN <<>>
  ELSE LET i == CHOOSE k \in 1..Len(tiers) :
                  \A j \in 1..Len(tiers) : tiers[j].level <= tiers[k].level
       IN <<tiers[i]>> \o
          SortDesc(SubSeq(tiers, 1, i - 1) \o SubSeq(tiers, i + 1, Len(tiers)))

RECURSIVE FirstMatch(_, _)
FirstMatch(permOrder, m) ==
  IF permOrder = <<>> THEN 0
  ELSE IF TierCheck(Head(permOrder).check, m) THEN Head(permOrder).level
  ELSE FirstMatch(Tail(permOrder), m)

\* permlevelIn that consults the tiers in the order of the configuration
permlevelIn_ConfigOrder(config, m) == FirstMatch(config, m)

\* BotClient.permlevel, for a client whose config.permLevels is config
permlevelIn(config, m) == FirstMatch(SortDesc(config), m)

\* BotClient.permlevel
permlevel(m) == permlevelIn(permLevels, m)

TierNames == {permLevels[i].name : i \in 1..Len(permLevels)} \cup {"undefined"}
\* permLevels.find(l => l.level === level), by its name
FindTier(level) ==
  IF \E i \in 1..Len(permLevels) : permLevels[i].level = level
  THEN permLevels[CHOOSE i \in 1..Len(permLevels) : permLevels[i].level = level].name
  ELSE "undefined"

(***************************************************************************)
(* Command resolver and context builder.                                   *)
(***************************************************************************)
\* the guildPrefixes argument of _validatePrefix: no map, or the prefix of
\* the entry of the message's guild (<<>>: no entry, or an empty prefix)
NoMap == [map |-> FALSE, prefix |-> <<>>]
GuildPrefix(p) == [map |-> TRUE, prefix |-> p]

\* validatePrefixGuild that matches the content as it was sent, untrimmed
validatePrefixGuild_NoTrim(content, defaultPrefix, guildPrefixes) ==
  LET normal == CollapseSpaces(ToLower(content))
      customPrefix == IF guildPrefixes.prefix = defaultPrefix THEN <<>>
                      ELSE guildPrefixes.prefix
  IN IF ~guildPrefixes.map
     THEN (IF StartsWith(normal, defaultPrefix) THEN defaultPrefix ELSE <<>>)
     ELSE IF customPrefix # <<>> /\ StartsWith(normal, defaultPrefix) THEN <<>>
     ELSE IF customPrefix # <<>> /\ StartsWith(normal, customPrefix) THEN customPrefix
     ELSE IF customPrefix = <<>> /\ StartsWith(normal, defaultPrefix) THEN defaultPrefix
     ELSE <<>>

\* Conditions._validatePrefix (and validatePrefix of the command helpers);
\* the result false is <<>>
validatePrefixGuild(content, defaultPrefix, guildPrefixes) ==
  LET normal == CollapseSpaces(ToLower(Trim(content)))
      customPrefix == IF guildPrefixes.prefix = defaultPrefix THEN <<>>
                      ELSE guildPrefixes.prefix
  IN IF ~guildPrefixes.map
     THEN (IF StartsWith(normal, defaultPrefix) THEN defaultPrefix ELSE <<>>)
     ELSE IF customPrefix # <<>> /\ StartsWith(normal, defaultPrefix) THEN <<>>
     ELSE IF customPrefix # <<>> /\ StartsWith(normal, customPrefix) THEN customPrefix
     ELSE IF customPrefix = <<>> /\ StartsWith(normal, defaultPrefix) THEN defaultPrefix
     ELSE <<>>

\* Conditions._validatePrefix without a guild prefix map
validatePrefix(content, defaultPrefix) == validatePrefixGuild(content, defaultPrefix, NoMap)

\* splitCommandAndArguments that keeps the case of the command token
splitCommandAndArguments_KeepCase(content, prefix) ==
  LET toks == SplitSpaces(CollapseSpacesAndNewlines(Substr(Trim(content), Len(prefix))))
  IN [command |-> Trim(Head(toks)), args |-> Tail(toks)]

splitCommandAndArguments(content, prefix) ==
  LET toks == SplitSpaces(CollapseSpacesAndNewlines(Substr(Trim(content), Len(prefix))))
  IN [command |-> ToLower(Trim(Head(toks))), args |-> Tail(toks)]

IsFlag(tok) == Len(tok) > 2 /\ tok[1] = "-" /\ tok[2] = "-"
\* mri(args), restricted to "--key value" and "--key": the keys that carry
\* a string value
CliStringKeys(args) ==
  { Substr(args[i], 2) : i \in { k \in 1..Len(args) :
        IsFlag(args[k]) /\ k < Len(args) /\ args[k + 1][1] # "-" } }
CliKeys(args) == { Substr(args[i], 2) : i \in { k \in 1..Len(args) : IsFlag(args[k]) } }

\* validator.validate(params, cmd.args) for a schema of required strings:
\* the fields in error, in schema order
RECURSIVE MissingFields(_, _, _)
MissingFields(schema, i, ok) ==
  IF i > Len(schema) THEN <<>>
  ELSE (IF schema[i] \in ok THEN <<>> ELSE <<schema[i]>>) \o MissingFields(schema, i + 1, ok)

buildCommandContext(m, prefix) ==
  LET split == splitCommandAndArguments(m.content, prefix)
      direct == split.command \in CommandNames
      isAlias == ~direct /\ split.command \in AliasNames
      cmd == IF direct THEN split.command
             ELSE IF isAlias THEN aliases[split.command] ELSE NoName
      schema == IF cmd = NoName THEN <<>> ELSE commands[cmd].args
      positional == { schema[i] : i \in { k \in 1..Len(schema) : k <= Len(split.args) } }
      validationResult == MissingFields(schema, 1, positional)
      alt == (positional \ (CliKeys(split.args) \ CliStringKeys(split.args)))
               \cup CliStringKeys(split.args)
      validationResultAlt == MissingFields(schema, 1, alt)
  IN [isDM |-> ChannelType(m.channel) = "DM",
      userId |-> m.author,
      permLevel |-> permlevel(m),
      command |-> cmd,
      commandName |-> cmd,
      calledByAlias |-> isAlias,
      args |-> split.args,
      validationErrors |->
        IF validationResult = <<>> \/ validationResultAlt = <<>> THEN <<>>
        ELSE validationResult,
      prefix |-> prefix]

(***************************************************************************)
(* State.                                                                  *)
(***************************************************************************)
VARIABLES
  now,          \* Date.now(), in ms
  prefixCheckers,   \* extensions.prefixCheckers.length
  contextExtenders, \* extensions.contextExtenders.length
  timestamps,   \* CooldownManager: command name -> user id -> last use (-1: no entry)
  timers,       \* pending setTimeout(() => timestamps.delete(userId), cooldownAmount)
  run,          \* one record per pipeline run in flight
  delivered,    \* number of message events so far
  call,         \* a direct call of one exported function: arguments and result
  ignored,      \* ListenerIgnoreList: guilds and channels, id -> IgnoreSettings
  ignoreTimers, \* pending setTimeout(() => list.delete(id), duration)
  ignoreCalls,  \* calls of the ignore list so far; a timer's handle is its call's number
  listenerCooldowns, \* Listener._cooldowns: listener -> key -> end of the cooldown
  listening,    \* one record per messageCreate callback of the ListenerRunner in flight
  heard,        \* what the listener engine did, in order
  listenerSend  \* Listener.send: listener -> channel the injected helper sends to

listenerVars ==
  <<ignored, ignoreTimers, ignoreCalls, listenerCooldowns, listening, heard, listenerSend>>

vars == <<now, prefixCheckers, contextExtenders, timestamps, timers, run, delivered, call,
          ignored, ignoreTimers, ignoreCalls, listenerCooldowns, listening, heard,
          listenerSend>>

NoCall == [op |-> "none"]

Absent == -1

Contents ==
  { <<"!", "p", "i", "n", "g">>,
    <<"p", "i", "n", "g">>,
    <<" ", "!", "P">>,
    <<"!", "n", "o">>,
    <<"!", "e", "v", "a", "l">>,
    <<"!", "e", "v", "a", "l", " ", "x">>,
    <<"!", "s", "e", "c">>,
    <<"!", "l", "e", "w", "d">>,
    <<"!", "t">> }

M(author, channel, content) ==
  [author |-> author, channel |-> channel, content |-> content]

\* the inbound messages: every content from a plain user in a guild channel,
\* and the author/channel combinations that decide a gate differently
Messages ==
  { M("u1", "txt", c) : c \in Contents } \cup
  { M("own", "txt", c) : c \in Contents \ { <<"p", "i", "n", "g">>, <<"!", "n", "o">>,
                                            <<"!", "p", "i", "n", "g">>, <<" ", "!", "P">>,
                                            <<"!", "t">> } } \cup
  { M(u, "nsfw", <<"!", "l", "e", "w", "d">>) : u \in {"u1", "own"} } \cup
  { M(u, "dm", <<"!", "s", "e", "c">>) : u \in {"u1", "own"} } \cup
  { M("u1", "dm", <<"!", "p", "i", "n", "g">>),
    M("bot", "txt", <<"!", "p", "i", "n", "g">>) }

\* the messages of runs in flight together: one caller invoking one command
\* by its name and by its alias, and another caller invoking a command
\* that deletes the invoking message
Rivals ==
  { M("u1", "txt", <<"!", "p", "i", "n", "g">>),
    M("u1", "txt", <<" ", "!", "P">>),
    M("own", "txt", <<"!", "e", "v", "a", "l", " ", "x">>) }

NoMsg == [author |-> "", channel |-> "", content |-> <<>>]
NoCtx ==
  [isDM |-> FALSE, userId |-> "", permLevel |-> 0, command |-> NoName,
   commandName |-> NoName, calledByAlias |-> FALSE, args |-> <<>>,
   validationErrors |-> <<>>, prefix |-> <<>>]

\* what a run did, in order: calls on the message/channel, events emitted on
\* the client, calls on the cooldown store, the handler call
Ev(ev, cmd, a, b, c) ==
  [ev |-> ev, cmd |-> cmd, a |-> a, b |-> b, c |-> c, list |-> <<>>]

IdleRun ==
  [pc |-> "idle", msg |-> NoMsg, ctx |-> NoCtx, idx |-> 0, resume |-> "",
   sentAt |-> 0, commitAt |-> Absent, handler |-> "", trace |-> <<>>,
   checks |-> <<>>]

Log(rec, e) == [rec EXCEPT !.trace = Append(@, e)]
Goto(rec, pc) == [rec EXCEPT !.pc = pc]

Store(ts, tm) == [timestamps |-> ts, timers |-> tm]
Out(rec, st) == [run |-> rec, st |-> st]

(***************************************************************************)
(* Listener engine: registry and state.                                    *)
(***************************************************************************)
\* the channels a message of the listener engine arrives in, and the guild
\* of each ("none": message.guild is null)
ListenerChannels == {"txt", "nsfw", "far", "dm"}
ListenerGuilds == {"g1", "g2"}
GuildIn(c) == IF c = "far" THEN "g2" ELSE GuildOf(c)

\* Math.abs(maxMessageLength || Infinity)
Infinity == 1000

W_hi == <<"h", "i">>
W_no == <<"n", "o">>

\* bot.botListeners, in registration order (words: a string or an array of
\* strings; cooldown and globalCooldown in seconds, 0: no global cooldown)
ListenerIds == {"greet", "reply", "warn"}
botListeners ==
  << [id |-> "greet", words |-> [array |-> FALSE, tokens |-> <<W_hi>>], cooldown |-> 5,
      category |-> "chat", globalCooldown |-> 10, maxMessageLength |-> Infinity,
      priority |-> 0],
     [id |-> "reply", words |-> [array |-> TRUE, tokens |-> <<W_hi>>], cooldown |-> 0,
      category |-> "chat", globalCooldown |-> 0, maxMessageLength |-> 2,
      priority |-> 1],
     [id |-> "warn", words |-> [array |-> FALSE, tokens |-> <<W_no>>], cooldown |-> 5,
      category |-> "mod", globalCooldown |-> 0, maxMessageLength |-> Infinity,
      priority |-> 0] >>

\* the keys of Listener._cooldowns: author ids and `GUILD_${guildId}`
GuildKey(g) == IF g = "g1" THEN "GUILD_g1" ELSE "GUILD_g2"
CooldownKeys == Users \cup { GuildKey(g) : g \in ListenerGuilds }

\* IgnoreSettings; timeout is the handle of the timer, 0 for null
NoEntry == [start |-> Absent, duration |-> 0, timeout |-> 0]
IgnoreSettings(start, duration, timeout) ==
  [start |-> start, duration |-> duration, timeout |-> timeout]

\* the callbacks in flight: one slot per message event, reused once the
\* callback and every category loop it started have completed
Hearings == {"h1", "h2"}
\* l.category || 'other'
CategoryOf(l) == IF l.category = "" THEN "other" ELSE l.category
Categories == { CategoryOf(botListeners[i]) : i \in 1..Len(botListeners) }
IdleHearing ==
  [pc |-> "idle", n |-> 0, msg |-> NoMsg, idx |-> 0, wait |-> [c \in Categories |-> 0]]

\* Listener.send before the first injection: undefined
NoSend == ""
ListenerIdle ==
  /\ ignored = [guilds |-> [g \in ListenerGuilds |-> NoEntry],
                channels |-> [c \in ListenerChannels |-> NoEntry]]
  /\ ignoreTimers = {}
  /\ ignoreCalls = 0
  /\ listenerCooldowns = [l \in ListenerIds |-> [k \in CooldownKeys |-> Absent]]
  /\ listening = [e \in Hearings |-> IdleHearing]
  /\ heard = <<>>
  /\ listenerSend = [l \in ListenerIds |-> NoSend]

(***************************************************************************)
(* CooldownManager.                                                        *)
(***************************************************************************)
\* the keys of the timestamps collections: the lower-cased command names
\* (BotClient.loadCommand, CooldownManager.loadCommands)
Collections == { ToLower(n) : n \in CommandNames }

cooldownAmount(commandName) == commands[commandName].cooldown * 1000

\* Number((ms / 1000).toFixed(1)), in tenths of a second
ToFixed1(ms) == (ms + 50) \div 100

\* updateTimeLeft that schedules a new eviction for the refreshed record
updateTimeLeft_Reschedule(st, commandName, userId, t) ==
  IF commandName \notin CommandNames \/ commandName \notin Collections
  THEN [st |-> st, threw |-> TRUE]
  ELSE [st |-> [st EXCEPT !.timestamps[commandName][userId] = t,
                          !.timers = @ \cup {[cmd |-> commandName, user |-> userId,
                                              due |-> t + cooldownAmount(commandName)]}],
        threw |-> FALSE]

\* CooldownManager.updateTimeLeft
updateTimeLeft(st, commandName, userId, t) ==
  IF commandName \notin CommandNames \/ commandName \notin Collections
  THEN [st |-> st, threw |-> TRUE]
  ELSE [st |-> [st EXCEPT !.timestamps[commandName][userId] = t], threw |-> FALSE]

\* CooldownManager.getTimeLeft: the store after the call, the value
\* returned (tenths of a second) and whether the call threw
getTimeLeft(st, commandName, userId, t) ==
  IF commandName \notin CommandNames \/ commandName \notin Collections
  THEN [st |-> st, left |-> 0, threw |-> TRUE]
  ELSE IF st.timestamps[commandName][userId] # Absent
  THEN LET expirationTime == st.timestamps[commandName][userId] + cooldownAmount(commandName)
       IN [st |-> st,
           left |-> IF t < expirationTime THEN ToFixed1(expirationTime - t) ELSE 0,
           threw |-> FALSE]
  ELSE LET upd == updateTimeLeft(st, commandName, userId, t)
       IN [st |-> [upd.st EXCEPT !.timers = @ \cup
                     {[cmd |-> commandName, user |-> userId,
                       due |-> t + cooldownAmount(commandName)]}],
           left |-> 0, threw |-> upd.threw]

(***************************************************************************)
(* Conditions.                                                             *)
(***************************************************************************)
isBot(m) == AuthorIsBot(m.author)

shouldFetchMember(member, ctx) == ~ctx.isDM /\ ~member

isForbiddenServerOnly(ctx) == ctx.isDM /\ "dm" \notin commands[ctx.command].runIn

isForbiddenDMOnly(ctx) ==
  ~ctx.isDM /\ ~("text" \in commands[ctx.command].runIn \/ "guild" \in commands[ctx.command].runIn)

isUnsafeNSFWCommand(m, ctx) ==
  IF ~commands[ctx.command].nsfwOnly THEN FALSE ELSE ~ChannelNsfw(m.channel)

\* Conditions.meetsPermissionLevel: "true", "error" (SensumSchemaError) or
\* "denied" (IPermissionError, with the two tiers found in the config)
meetsPermissionLevel(ctx) ==
  LET requiredPermissionLevel == FindTier(commands[ctx.command].permission)
      userPermissionLevel == FindTier(ctx.permLevel)
  IN IF ctx.permLevel < commands[ctx.command].permission
     THEN IF requiredPermissionLevel = "undefined"
          THEN [res |-> "error", user |-> userPermissionLevel, required |-> requiredPermissionLevel]
          ELSE [res |-> "denied", user |-> userPermissionLevel, required |-> requiredPermissionLevel]
     ELSE [res |-> "true", user |-> userPermissionLevel, required |-> requiredPermissionLevel]

(***************************************************************************)
(* CommandRunner.run, cut at its suspension points.  Each operator is the  *)
(* synchronous stretch of code that starts at the named place and runs to  *)
(* the next await that really suspends (or to the end of the run).  A      *)
(* stretch that reaches a place where the environment decides (is the      *)
(* guild member cached? how does the handler end?) stops there with pc     *)
(* "hydrate" or "invoke"; Outcomes resolves these within the same step.    *)
(***************************************************************************)
HandlerOutcomes == {"return", "throw", "pending"}

BoolStr(b) == IF b THEN "true" ELSE "false"

\* sendErrorMessage(message, text): the send is issued, the run suspends
Feedback(rec, kind, b, c, resume) ==
  [Log(rec, Ev("feedback", rec.ctx.commandName, kind, b, c))
     EXCEPT !.pc = "fbSend", !.resume = resume]

\* sendErrorMessage with a text that lists the given fields
FeedbackList(rec, kind, fields, resume) ==
  [Log(rec, [Ev("feedback", rec.ctx.commandName, kind, "", "") EXCEPT !.list = fields])
     EXCEPT !.pc = "fbSend", !.resume = resume]

\* makeCommandErrorHandler(context)(err)
commandErrorHandler(rec) ==
  Log(rec, Ev("error", rec.ctx.commandName, "handler", rec.msg.channel,
              BoolStr(rec.ctx.isDM)))

\* InvokeHandler that logs the usage but never calls command.run
InvokeHandler_NoCall(rec, h) ==
  Goto(Log(rec, Ev("command", rec.ctx.commandName, "", "", "")), "done")

\* InvokeHandler that catches rejections only: a synchronous throw escapes
InvokeHandler_NoSyncCatch(rec, h) ==
  LET emitted == Log(rec, Ev("command", rec.ctx.commandName, "", "", ""))
      called == Log([emitted EXCEPT !.handler = h],
                    Ev("run", rec.ctx.commandName, "", "", ""))
  IN IF h = "throw" THEN Goto(called, "rejected")
     ELSE IF h = "return" THEN Goto(called, "done")
     ELSE Goto(called, "handler")

\* lines 185-194: emit('command'), then handlePromise(() => command.run(..))
InvokeHandler(rec, h) ==
  LET emitted == Log(rec, Ev("command", rec.ctx.commandName, "", "", ""))
      called == Log([emitted EXCEPT !.handler = h],
                    Ev("run", rec.ctx.commandName, "", "", ""))
  IN IF h = "throw" THEN Goto(commandErrorHandler(called), "done")
     ELSE IF h = "return" THEN Goto(called, "done")
     ELSE Goto(called, "handler")

\* CommitCooldown that deletes the invoking message first and commits the
\* cooldown after the usage event
CommitCooldown_DeleteFirst(rec, st, t) ==
  LET upd == updateTimeLeft(st, rec.ctx.commandName, rec.ctx.userId, t)
      late == Log(Log([rec EXCEPT !.commitAt = t],
                      Ev("command", rec.ctx.commandName, "", "", "")),
                  Ev("updateTimeLeft", rec.ctx.commandName, "", "", ""))
  IN IF commands[rec.ctx.command].delete
     THEN Out(Goto(Log(Log(rec, Ev("delete", rec.ctx.commandName, "", "", "")),
                       Ev("updateTimeLeft", rec.ctx.commandName, "", "", "")), "delete"),
              upd.st)
     ELSE Out(Goto(late, "invoke"), upd.st)

\* lines 179-183: commit the cooldown, delete the invoking message
CommitCooldown(rec, st, t) ==
  LET upd == updateTimeLeft(st, rec.ctx.commandName, rec.ctx.userId, t)
      committed == Log([rec EXCEPT !.commitAt = t],
                       Ev("updateTimeLeft", rec.ctx.commandName, "", "", ""))
  IN IF upd.threw THEN Out(Goto(rec, "rejected"), st)
     ELSE IF commands[rec.ctx.command].delete
     THEN Out(Goto(Log(committed, Ev("delete", rec.ctx.commandName, "", "", "")), "delete"),
              upd.st)
     ELSE Out(Goto(committed, "invoke"), upd.st)

\* lines 165-177: the cooldown gate
CooldownGate(rec, st, t) ==
  LET q == getTimeLeft(st, rec.ctx.commandName, rec.ctx.userId, t)
      asked == Log(rec, Ev("getTimeLeft", rec.ctx.commandName,
                           IF q.left > 0 THEN "wait" ELSE "free", "", ""))
  IN IF q.threw
     THEN Out(Goto(Log(rec, Ev("getTimeLeft", rec.ctx.commandName, "throw", "", "")),
                   "rejected"), st)
     ELSE IF q.left > 0 THEN Out(Feedback(asked, "cooldown", "", "", "done"), q.st)
     ELSE CommitCooldown(asked, q.st, t)

\* ValidationGate that asks the cooldown store before it looks at the
\* validation errors
ValidationGate_AfterCooldown(rec, st, t) ==
  LET q == getTimeLeft(st, rec.ctx.commandName, rec.ctx.userId, t)
  IN IF rec.ctx.validationErrors # <<>>
     THEN Out(FeedbackList(rec, "validation", rec.ctx.validationErrors, "done"), q.st)
     ELSE CooldownGate(rec, st, t)

\* lines 148-163: the argument validation gate
ValidationGate(rec, st, t) ==
  IF rec.ctx.validationErrors # <<>>
  THEN Out(FeedbackList(rec, "validation", rec.ctx.validationErrors, "done"), st)
  ELSE CooldownGate(rec, st, t)

\* PermissionGate that answers a denied caller whether or not the command
\* is hidden
PermissionGate_IgnoreHidden(rec, st, t) ==
  LET permissionLevelResult == meetsPermissionLevel(rec.ctx)
  IN IF permissionLevelResult.res = "error"
     THEN Out(Goto(Log(rec, Ev("error", rec.ctx.commandName, "config", "", "")), "done"), st)
     ELSE IF permissionLevelResult.res # "true"
     THEN Out(Feedback(rec, "permission", permissionLevelResult.user,
                       permissionLevelResult.required, "done"), st)
     ELSE ValidationGate(rec, st, t)

\* PermissionGate that is evaluated after the validation gate
PermissionGate_AfterValidation(rec, st, t) ==
  LET permissionLevelResult == meetsPermissionLevel(rec.ctx)
  IN IF rec.ctx.validationErrors # <<>>
     THEN Out(FeedbackList(rec, "validation", rec.ctx.validationErrors, "done"), st)
     ELSE IF permissionLevelResult.res = "error"
     THEN Out(Goto(Log(rec, Ev("error", rec.ctx.commandName, "config", "", "")), "done"), st)
     ELSE IF permissionLevelResult.res # "true"
     THEN IF ~commands[rec.ctx.command].hidden
          THEN Out(Feedback(rec, "permission", permissionLevelResult.user,
                            permissionLevelResult.required, "done"), st)
          ELSE Out(Goto(rec, "done"), st)
     ELSE CooldownGate(rec, st, t)

\* lines 125-146: the permission gate
PermissionGate(rec, st, t) ==
  LET permissionLevelResult == meetsPermissionLevel(rec.ctx)
  IN IF permissionLevelResult.res = "error"
     THEN Out(Goto(Log(rec, Ev("error", rec.ctx.commandName, "config", "", "")), "done"), st)
     ELSE IF permissionLevelResult.res # "true"
     THEN IF ~commands[rec.ctx.command].hidden
          THEN Out(Feedback(rec, "permission", permissionLevelResult.user,
                            permissionLevelResult.required, "done"), st)
          ELSE Out(Goto(rec, "done"), st)
     ELSE ValidationGate(rec, st, t)

\* ContextGates that answers a command token it does not know
ContextGates_ReplyUnknown(rec, st, t) ==
  IF rec.ctx.command = NoName THEN Out(Feedback(rec, "unknown", "", "", "done"), st)
  ELSE IF isUnsafeNSFWCommand(rec.msg, rec.ctx)
  THEN Out(Feedback(rec, "nsfw", "", "", "done"), st)
  ELSE IF isForbiddenServerOnly(rec.ctx)
  THEN Out(Feedback(rec, "server_only", "", "", "done"), st)
  ELSE IF isForbiddenDMOnly(rec.ctx)
  THEN Out(Feedback(rec, "dm_only", "", "", "permission"), st)
  ELSE PermissionGate(rec, st, t)

\* lines 96-123: command resolved?, NSFW gate, run-context gates
ContextGates(rec, st, t) ==
  IF rec.ctx.command = NoName THEN Out(Goto(rec, "done"), st)
  ELSE IF isUnsafeNSFWCommand(rec.msg, rec.ctx)
  THEN Out(Feedback(rec, "nsfw", "", "", "done"), st)
  ELSE IF isForbiddenServerOnly(rec.ctx)
  THEN Out(Feedback(rec, "server_only", "", "", "done"), st)
  ELSE IF isForbiddenDMOnly(rec.ctx)
  THEN Out(Feedback(rec, "dm_only", "", "", "permission"), st)
  ELSE PermissionGate(rec, st, t)

\* lines 90-93: fetch the guild member when it is not cached
AfterExtenders(rec, st, t, member) ==
  IF shouldFetchMember(member, rec.ctx)
  THEN Out(Goto(rec, "fetch"), st)
  ELSE ContextGates(rec, st, t)

\* lines 79-88: no prefix: drop; build the context, start the extenders
AfterPrefix(rec, prefix, nExt, st) ==
  IF prefix = <<>> THEN Out(Goto(rec, "done"), st)
  ELSE LET built == [rec EXCEPT !.ctx = buildCommandContext(rec.msg, prefix)]
       IN IF nExt > 0 THEN Out([built EXCEPT !.pc = "extend", !.idx = 1], st)
          ELSE Out(Goto(built, "hydrate"), st)

\* the code after `await sendErrorMessage(..)`: return, or (after the
\* DM-only feedback) the permission gate
AfterFeedback(rec, st, t) ==
  IF rec.resume = "permission" THEN PermissionGate(rec, st, t)
  ELSE Out(Goto(rec, "done"), st)

(***************************************************************************)
(* Actions.                                                                *)
(***************************************************************************)
Init ==
  /\ now = 0
  /\ prefixCheckers \in 0..MaxCheckers
  /\ contextExtenders \in 0..MaxExtenders
  /\ timestamps = [n \in Collections |-> [u \in Users |-> Absent]]
  /\ timers = {}
  /\ run = [r \in Runs |-> IdleRun]
  /\ delivered = 0
  /\ call = NoCall
  /\ ListenerIdle

Cur == Store(timestamps, timers)

\* the ways a synchronous stretch can end, over the environment's choices
Hydrated(out, t) ==
  IF out.run.pc = "hydrate"
  THEN { AfterExtenders(out.run, out.st, t, member) : member \in BOOLEAN }
  ELSE {out}

Invoked(out) ==
  IF out.run.pc = "invoke"
  THEN { Out(InvokeHandler(out.run, h), out.st) : h \in HandlerOutcomes }
  ELSE {out}

Outcomes(out, t) == UNION { Invoked(o) : o \in Hydrated(out, t) }

Apply(r, out) ==
  \E o \in Outcomes(out, now) :
    /\ run' = [run EXCEPT ![r] = o.run]
    /\ timestamps' = o.st.timestamps
    /\ timers' = o.st.timers
    /\ UNCHANGED <<now, prefixCheckers, contextExtenders, call>>
    /\ UNCHANGED listenerVars

Resume(r, out) == Apply(r, out) /\ UNCHANGED delivered

\* a message (or message update) event: run(message) up to its first suspension
Start(r, msgs) ==
  /\ run[r].pc \in {"idle", "done", "rejected"}
  /\ delivered < MaxMessages
  /\ delivered' = delivered + 1
  /\ \E m \in msgs :
       LET rec == [IdleRun EXCEPT !.msg = m]
       IN Apply(r,
            IF isBot(m) THEN Out(Goto(rec, "done"), Cur)
            ELSE IF prefixCheckers > 0
            THEN Out([rec EXCEPT !.pc = "prefix", !.idx = 1], Cur)
            ELSE AfterPrefix(rec, validatePrefix(m.content, DefaultPrefix),
                             contextExtenders, Cur))

\* PrefixSettled that tries the default prefix when every checker
\* answered false
PrefixSettled_DefaultFallback(rec, res, st) ==
  LET seen == [rec EXCEPT !.checks = Append(@, res)]
  IN IF res = "throw"
     THEN Out(Goto(Log(seen, Ev("error", NoName, "prefix check", "", "")), "done"), st)
     ELSE IF res = "false"
     THEN IF rec.idx < prefixCheckers
          THEN Out([seen EXCEPT !.idx = @ + 1], st)
          ELSE AfterPrefix(seen, validatePrefix(rec.msg.content, DefaultPrefix),
                           contextExtenders, st)
     ELSE AfterPrefix(seen, CustomPrefix, contextExtenders, st)

\* Conditions._matchesAllCustomPrefixCheckers, from the point where the
\* checker awaited (the idx-th) settles with res: a throw is reported and
\* ends the resolution with false, false moves on to the next checker,
\* any other answer is the prefix
PrefixSettled(rec, res, st) ==
  LET seen == [rec EXCEPT !.checks = Append(@, res)]
  IN IF res = "throw"
     THEN Out(Goto(Log(seen, Ev("error", NoName, "prefix check", "", "")), "done"), st)
     ELSE IF res = "false"
     THEN IF rec.idx < prefixCheckers
          THEN Out([seen EXCEPT !.idx = @ + 1], st)
          ELSE AfterPrefix(seen, <<>>, contextExtenders, st)
     ELSE AfterPrefix(seen, CustomPrefix, contextExtenders, st)

\* Conditions._matchesAllCustomPrefixCheckers: one checker settles
PrefixCheck(r) ==
  /\ run[r].pc = "prefix"
  /\ \E res \in {"false", "prefix", "throw"} :
       Resume(r, PrefixSettled(run[r], res, Cur))

\* CommandRunner.applyContextExtenders: one extender settles
Extend(r) ==
  /\ run[r].pc = "extend"
  /\ \E res \in {"ok", "throw"} :
       LET rec == IF res = "throw"
                  THEN Log(run[r], Ev("error", run[r].ctx.commandName,
                                      "context extension", "", ""))
                  ELSE run[r]
       IN Resume(r,
            IF rec.idx < contextExtenders
            THEN Out([rec EXCEPT !.idx = @ + 1], Cur)
            ELSE Out(Goto(rec, "hydrate"), Cur))

\* message.guild.members.fetch settles
FetchMember(r) ==
  /\ run[r].pc = "fetch"
  /\ \E ok \in BOOLEAN :
       Resume(r, IF ok THEN ContextGates(run[r], Cur, now)
                ELSE Out(Goto(run[r], "rejected"), Cur))

\* sendErrorMessage: message.channel.send settles
FeedbackSend(r) ==
  /\ run[r].pc = "fbSend"
  /\ \E ok \in BOOLEAN :
       Resume(r, IF ok THEN Out([run[r] EXCEPT !.pc = "fbWait", !.sentAt = now], Cur)
                ELSE AfterFeedback(run[r], Cur, now))

\* sendErrorMessage: wait(5000) is over, sentMessage.delete() settles
FeedbackDelete(r) ==
  /\ run[r].pc = "fbWait"
  /\ now >= run[r].sentAt + FeedbackDelay
  /\ \E ok \in BOOLEAN :
       Resume(r, AfterFeedback(
                  Log(run[r], Ev("feedbackDelete", run[r].ctx.commandName,
                                 BoolStr(ok), "", "")),
                  Cur, now))

\* message.delete().catch(() => {}) settles
DeleteInvoking(r) ==
  /\ run[r].pc = "delete"
  /\ Resume(r, Out(Goto(run[r], "invoke"), Cur))

\* the promise returned by the handler settles
HandlerSettle(r) ==
  /\ run[r].pc = "handler"
  /\ \E res \in {"resolve", "reject"} :
       Resume(r, Out(Goto(IF res = "reject"
                         THEN commandErrorHandler([run[r] EXCEPT !.handler = "reject"])
                         ELSE [run[r] EXCEPT !.handler = "resolve"], "done"), Cur))

\* an eviction timer of getTimeLeft fires
EvictionTimer ==
  \E tm \in timers :
    /\ now >= tm.due
    /\ timestamps' = [timestamps EXCEPT ![tm.cmd][tm.user] = Absent]
    /\ timers' = timers \ {tm}
    /\ UNCHANGED <<now, prefixCheckers, contextExtenders, run, delivered, call>>
    /\ UNCHANGED listenerVars

\* time passes; a timer that is due fires before the clock moves on
Tick ==
  /\ now < MaxTicks * TickMs
  /\ \A tm \in timers : tm.due > now
  /\ now' = now + TickMs
  /\ UNCHANGED <<prefixCheckers, contextExtenders, timestamps, timers, run, delivered, call>>
  /\ UNCHANGED listenerVars

Continue ==
  \/ \E r \in Runs : PrefixCheck(r)
  \/ \E r \in Runs : Extend(r)
  \/ \E r \in Runs : FetchMember(r)
  \/ \E r \in Runs : FeedbackSend(r)
  \/ \E r \in Runs : FeedbackDelete(r)
  \/ \E r \in Runs : DeleteInvoking(r)
  \/ \E r \in Runs : HandlerSettle(r)
  \/ EvictionTimer
  \/ Tick

\* messages are handled one after the other
Next ==
  \/ Start("r1", Messages)
  \/ Continue

Spec == Init /\ [][Next]_vars

\* two messages are handled at the same time, by a client with no prefix
\* checker and no context extender registered
InitConcurrent ==
  /\ now = 0
  /\ prefixCheckers = 0
  /\ contextExtenders = 0
  /\ timestamps = [n \in Collections |-> [u \in Users |-> Absent]]
  /\ timers = {}
  /\ run = [r \in Runs |-> IdleRun]
  /\ delivered = 0
  /\ call = NoCall
  /\ ListenerIdle

NextConcurrent ==
  \/ \E r \in Runs : Start(r, Rivals)
  \/ \E r \in Runs : FetchMember(r)
  \/ \E r \in Runs : FeedbackSend(r)
  \/ \E r \in Runs : FeedbackDelete(r)
  \/ \E r \in Runs : DeleteInvoking(r)
  \/ \E r \in Runs : HandlerSettle(r)
  \/ EvictionTimer
  \/ Tick

SpecConcurrent == InitConcurrent /\ [][NextConcurrent]_vars

\* prefix resolution: a client with up to MaxPrefixCheckers prefix checkers
\* and no context extender, handling messages with and without the default
\* prefix
PrefixMessages ==
  { M("u1", "txt", <<"!", "p", "i", "n", "g">>),
    M("u1", "txt", <<"p", "i", "n", "g">>),
    M("u1", "txt", <<" ", "!", "P">>),
    M("u1", "txt", <<"!", "n", "o">>) }

InitPrefix ==
  /\ now = 0
  /\ prefixCheckers \in 0..MaxPrefixCheckers
  /\ contextExtenders = 0
  /\ timestamps = [n \in Collections |-> [u \in Users |-> Absent]]
  /\ timers = {}
  /\ run = [r \in Runs |-> IdleRun]
  /\ delivered = 0
  /\ call = NoCall
  /\ ListenerIdle

NextPrefix ==
  \/ Start("r1", PrefixMessages)
  \/ PrefixCheck("r1")
  \/ FetchMember("r1")
  \/ FeedbackSend("r1")
  \/ FeedbackDelete("r1")
  \/ HandlerSettle("r1")
  \/ EvictionTimer
  \/ Tick

SpecPrefix == InitPrefix /\ [][NextPrefix]_vars

(***************************************************************************)
(* Direct calls of the exported functions, outside a pipeline run.         *)
(***************************************************************************)
PipelineIdle ==
  /\ ListenerIdle
  /\ now = 0
  /\ prefixCheckers = 0
  /\ contextExtenders = 0
  /\ timestamps = [n \in Collections |-> [u \in Users |-> Absent]]
  /\ timers = {}
  /\ run = [r \in Runs |-> IdleRun]
  /\ delivered = 0

PipelineUnchanged ==
  /\ UNCHANGED <<now, prefixCheckers, contextExtenders, timestamps, timers, run, delivered>>
  /\ UNCHANGED listenerVars

\* the tiers a configuration can hold, and the configurations
ConfigLevels == {USER, SERVER_OWNER, BOT_OWNER}
TierChecks == {"always", "guildOwner", "botOwner", "never"}
Tiers == { [level |-> l, name |-> "tier", check |-> c] : l \in ConfigLevels, c \in TierChecks }
Configs == UNION { [1..n -> Tiers] : n \in 0..MaxTiers }

Callers == { M(u, c, <<>>) : u \in {"u1", "own"}, c \in {"txt", "dm"} }

PermlevelCalls ==
  { [op |-> "permlevel", config |-> cfg, message |-> m, done |-> FALSE, level |-> 0] :
      cfg \in Configs, m \in Callers }

\* bot.permlevel(message)
Permlevel ==
  /\ call.op = "permlevel" /\ ~call.done
  /\ call' = [call EXCEPT !.done = TRUE, !.level = permlevelIn(call.config, call.message)]
  /\ PipelineUnchanged

InitPermlevel == PipelineIdle /\ call \in PermlevelCalls
SpecPermlevel == InitPermlevel /\ [][Permlevel]_vars

\* message contents: every string over a small alphabet, and the two
\* contents of the documentation
PrefixAlphabet == {" ", "!", "?", "p", "P"}
PrefixContents ==
  UNION { [1..n -> PrefixAlphabet] : n \in 0..MaxContentLen } \cup
  { <<"!", "p", "i", "n", "g">>, <<"p", "i", "n", "g">> }
DefaultPrefixes == { <<"!">>, <<"p">>, <<"P">> }
GuildPrefixMaps ==
  {NoMap} \cup { GuildPrefix(g) : g \in { <<>>, <<"!">>, <<"?">>, <<"!", "!">>, <<"P">> } }

ValidatePrefixCalls ==
  { [op |-> "validatePrefix", content |-> c, defaultPrefix |-> d, guildPrefixes |-> g,
     done |-> FALSE, prefix |-> <<>>] :
      c \in PrefixContents, d \in DefaultPrefixes, g \in GuildPrefixMaps }

\* Conditions._validatePrefix(message, defaultPrefix, guildPrefixes)
ValidatePrefix ==
  /\ call.op = "validatePrefix" /\ ~call.done
  /\ call' = [call EXCEPT !.done = TRUE,
                          !.prefix = validatePrefixGuild(call.content, call.defaultPrefix,
                                                         call.guildPrefixes)]
  /\ PipelineUnchanged

InitValidatePrefix == PipelineIdle /\ call \in ValidatePrefixCalls
SpecValidatePrefix == InitValidatePrefix /\ [][ValidatePrefix]_vars

\* command calls: optional leading blank, prefix, then every string over a
\* small alphabet, and the call of the documentation
SplitAlphabet == {" ", "\n", "\t", "a", "P"}
SplitBodies == UNION { [1..n -> SplitAlphabet] : n \in 0..MaxBodyLen }
SplitPrefixes == { <<"!">>, <<"?", "?">> }
Hello == <<"!", "h", "e", "l", "l", "o", " ", "t", "h", "e", "r", "e", " ",
           "f", "r", "i", "e", "n", "d">>

SplitCalls ==
  { [op |-> "split", content |-> lead \o pre \o b, prefix |-> pre, done |-> FALSE,
     command |-> <<>>, args |-> <<>>] :
      lead \in { <<>>, <<" ">> }, pre \in SplitPrefixes, b \in SplitBodies } \cup
  { [op |-> "split", content |-> Hello, prefix |-> <<"!">>, done |-> FALSE,
     command |-> <<>>, args |-> <<>>] }

\* splitCommandAndArguments(content, prefix)
Split ==
  /\ call.op = "split" /\ ~call.done
  /\ LET res == splitCommandAndArguments(call.content, call.prefix)
     IN call' = [call EXCEPT !.done = TRUE, !.command = res.command, !.args = res.args]
  /\ PipelineUnchanged

InitSplit == PipelineIdle /\ call \in SplitCalls
SpecSplit == InitSplit /\ [][Split]_vars

\* direct calls of the CooldownManager for one (command, caller): the last
\* call made (op, at, left, threw, mutated), the value of the query before
\* it if no updateTimeLeft came in between (prevLeft, Absent if none) and
\* the time of the last updateTimeLeft (updatedAt, Absent if none)
N_no == <<"n", "o">>
CooldownCommands == {N_ping, N_lewd, N_Tag, N_no}

CooldownCalls ==
  { [op |-> "start", commandName |-> c, userId |-> u, at |-> 0, left |-> 0,
     threw |-> FALSE, mutated |-> FALSE, prevLeft |-> Absent, updatedAt |-> Absent] :
      c \in CooldownCommands, u \in {"u1", "own"} }

IsCooldownCall == call.op \in {"start", "getTimeLeft", "updateTimeLeft"}

\* bot.cooldowns.getTimeLeft(commandName, userId)
GetTimeLeft ==
  /\ IsCooldownCall
  /\ LET q == getTimeLeft(Cur, call.commandName, call.userId, now)
     IN /\ timestamps' = q.st.timestamps
        /\ timers' = q.st.timers
        /\ call' = [call EXCEPT !.op = "getTimeLeft", !.at = now, !.left = q.left,
                                !.threw = q.threw, !.mutated = (q.st # Cur),
                                !.prevLeft = IF call.op = "getTimeLeft" /\ ~call.threw
                                             THEN call.left ELSE Absent]
  /\ UNCHANGED <<now, prefixCheckers, contextExtenders, run, delivered>>
  /\ UNCHANGED listenerVars

\* bot.cooldowns.updateTimeLeft(commandName, userId)
UpdateTimeLeft ==
  /\ IsCooldownCall
  /\ LET upd == updateTimeLeft(Cur, call.commandName, call.userId, now)
     IN /\ timestamps' = upd.st.timestamps
        /\ timers' = upd.st.timers
        /\ call' = [call EXCEPT !.op = "updateTimeLeft", !.at = now, !.left = 0,
                                !.threw = upd.threw, !.mutated = (upd.st # Cur),
                                !.prevLeft = Absent,
                                !.updatedAt = IF upd.threw THEN call.updatedAt ELSE now]
  /\ UNCHANGED <<now, prefixCheckers, contextExtenders, run, delivered>>
  /\ UNCHANGED listenerVars

InitCooldown == PipelineIdle /\ call \in CooldownCalls
NextCooldown == GetTimeLeft \/ UpdateTimeLeft \/ EvictionTimer \/ Tick
SpecCooldown == InitCooldown /\ [][NextCooldown]_vars

(***************************************************************************)
(* The cooldown store while time passes and every due timer fires.         *)
(***************************************************************************)
\* time passes: up to MaxTicks steps, and for as long as an eviction is
\* pending; a timer that is due fires before the clock moves on
CooldownElapse ==
  /\ now < MaxTicks * TickMs \/ timers # {}
  /\ \A tm \in timers : tm.due > now
  /\ now' = now + TickMs
  /\ UNCHANGED <<prefixCheckers, contextExtenders, timestamps, timers, run, delivered, call>>
  /\ UNCHANGED listenerVars

\* the calls are made during the first MaxTicks steps of the clock
CallsOpen == now <= MaxTicks * TickMs
GetTimeLeftEarly == CallsOpen /\ GetTimeLeft
UpdateTimeLeftEarly == CallsOpen /\ UpdateTimeLeft

NextEviction == GetTimeLeftEarly \/ UpdateTimeLeftEarly \/ EvictionTimer \/ CooldownElapse

SpecEviction ==
  /\ InitCooldown
  /\ [][NextEviction]_vars
  /\ WF_vars(EvictionTimer)
  /\ WF_vars(CooldownElapse)

(***************************************************************************)
(* Direct calls of getTimeLeft close to the expiry of a record.            *)
(***************************************************************************)
\* the call is made from MaxRemainingMs before the expiry up to the expiry
MaxRemainingMs == 60
RemainingCalls ==
  { [op |-> "remaining", commandName |-> c, userId |-> u, stamp |-> 0,
     at |-> cooldownAmount(c) - d, done |-> FALSE, left |-> 0] :
      c \in {N_ping, N_sec}, u \in {"u1"}, d \in 0..MaxRemainingMs }

\* getTimeLeft(commandName, userId) at the time call.at, the caller having
\* the record call.stamp
Remaining ==
  /\ call.op = "remaining" /\ ~call.done
  /\ call' = [call EXCEPT !.done = TRUE,
                !.left = getTimeLeft(
                           Store([timestamps EXCEPT ![call.commandName][call.userId] =
                                    call.stamp], timers),
                           call.commandName, call.userId, call.at).left]
  /\ PipelineUnchanged

InitRemaining == PipelineIdle /\ call \in RemainingCalls
SpecRemaining == InitRemaining /\ [][Remaining]_vars

\* direct calls of buildCommandContext: a caller, a channel, and a content
\* made of the default prefix, a command token and the rest of the text
ResolveTokens ==
  { N_ping, N_p, <<"P">>, N_Tag, <<"t", "a", "g">>, N_t, <<"T">>, N_eval, N_no }
ResolveTails == { <<>>, <<" ", "x">> }
Invocation(token, tail) == DefaultPrefix \o token \o tail

ResolveCalls ==
  { [op |-> "resolve", author |-> u, channel |-> c, token |-> k, tail |-> t,
     done |-> FALSE, ctx |-> NoCtx] :
      u \in {"u1", "own"}, c \in {"txt", "dm"}, k \in ResolveTokens, t \in ResolveTails }

\* buildCommandContext(bot, message, prefix)
Resolve ==
  /\ call.op = "resolve" /\ ~call.done
  /\ call' = [call EXCEPT !.done = TRUE,
                !.ctx = buildCommandContext(
                          M(call.author, call.channel, Invocation(call.token, call.tail)),
                          DefaultPrefix)]
  /\ PipelineUnchanged

InitResolve == PipelineIdle /\ call \in ResolveCalls
SpecResolve == InitResolve /\ [][Resolve]_vars

(***************************************************************************)
(* Direct calls of stringMatch.                                            *)
(***************************************************************************)
\* longest generated message content given to stringMatch
MaxMatchLen == 4
MatchAlphabet == {"y", "e", "s", " ", "!", "E"}
MatchContents == UNION { [1..n -> MatchAlphabet] : n \in 0..MaxMatchLen }
\* the words of a listener: a string, or an array of strings
Word(s) == [array |-> FALSE, tokens |-> <<s>>]
WordArray(ts) == [array |-> TRUE, tokens |-> ts]
W_s == <<"s">>
W_es == <<"e", "s">>
MatchWords ==
  { Word(K_yes), Word(<<"{">> \o K_yes \o <<"}">>), Word(W_s), Word(W_es),
    Word(<<"e", " ", "s">>), Word(<<"E">>),
    WordArray(<<>>), WordArray(<<W_s>>), WordArray(<<W_s, <<"e">>>>),
    WordArray(<<K_yes, W_s>>) }

MatchCalls ==
  { [op |-> "match", content |-> c, words |-> w, done |-> FALSE, matched |-> FALSE] :
      c \in MatchContents, w \in MatchWords }

\* stringMatch({ content }, words), its result read as a boolean
Match ==
  /\ call.op = "match" /\ ~call.done
  /\ call' = [call EXCEPT !.done = TRUE,
                !.matched = stringMatch(call.content, call.words)]
  /\ PipelineUnchanged

InitMatch == PipelineIdle /\ call \in MatchCalls
SpecMatch == InitMatch /\ [][Match]_vars

(***************************************************************************)
(* Listener engine: Listener.evaluate and the ListenerRunner.              *)
(***************************************************************************)
\* most message events given to the listener engine in one behaviour, most
\* calls of the ignore list, and how far the clock of the engine advances
MaxHeard == 1
MaxIgnoreCalls == 4
MaxListenerTicks == 2
\* most calls of the ignore list while messages are evaluated
MaxListenIgnores == 1
\* most message events where the cooldown clocks are examined
MaxCooldownHeard == 2

\* the ways a handler returns (promise: it returns a pending promise) and
\* the ways its promise settles
ListenerOutcomes == {"true", "false", "undefined", "throw", "promise"}
Settlements == {"true", "false", "undefined", "reject"}

\* the run functions of the registered listeners, by the ways each returns
Returns(id) ==
  CASE id = "greet" -> ListenerOutcomes
    [] id = "reply" -> {"true", "promise"}
    [] OTHER -> {"undefined", "throw"}
Handlers == { h \in [ListenerIds -> ListenerOutcomes] : \A id \in ListenerIds : h[id] \in Returns(id) }

\* one entry of heard: a handler call and how it returned ("run"), the
\* way its promise settled ("settled"), an 'error' event and its origin, a
\* 'listener' event
Hd(ev, n, m, listener, t, result) ==
  [ev |-> ev, n |-> n, listener |-> listener, author |-> m.author,
   channel |-> m.channel, at |-> t, result |-> result]

Engine(cds, hd, snd) == [cooldowns |-> cds, heard |-> hd, send |-> snd]
CurEngine == Engine(listenerCooldowns, heard, listenerSend)

\* Collection.has(id) of a list of the ignore list
Has(list, id) == id \in DOMAIN list /\ list[id] # NoEntry

\* this._cooldowns.get(key), as a condition: undefined and 0 are falsy
Falsy(v) == v \in {Absent, 0}

\* evaluate that does not consult the ignore list
evaluate_NoIgnoreCheck(l, m, t, ign, cds, outcome) ==
  LET guildId == GuildIn(m.channel)
      own == cds[l.id]
      global == IF guildId = "none" THEN Absent ELSE own[GuildKey(guildId)]
      callerSet == [own EXCEPT ![m.author] = t + l.cooldown * 1000]
      bothSet == IF guildId # "none" /\ l.globalCooldown # 0
                 THEN [callerSet EXCEPT ![GuildKey(guildId)] = t + l.globalCooldown * 1000]
                 ELSE callerSet
      skip == [result |-> "null", ran |-> FALSE, cooldowns |-> cds]
  IN IF AuthorIsBot(m.author) THEN skip
     ELSE IF guildId # "none" /\ l.globalCooldown # 0 /\ ~Falsy(global) /\ t - global < 0
     THEN skip
     ELSE IF (Falsy(own[m.author]) \/ t - own[m.author] > 0) /\ stringMatch(m.content, l.words)
     THEN IF outcome = "throw"
          THEN [result |-> "throw", ran |-> TRUE, cooldowns |-> cds]
          ELSE [result |-> outcome, ran |-> TRUE,
                cooldowns |-> [cds EXCEPT ![l.id] = bothSet]]
     ELSE skip

\* Listener.evaluate(message, context) at time t, the handler returning
\* outcome if it is called: the value returned (null, undefined, or what
\* the handler returned), whether the handler was called, the cooldowns
evaluate(l, m, t, ign, cds, outcome) ==
  LET guildId == GuildIn(m.channel)
      own == cds[l.id]
      global == IF guildId = "none" THEN Absent ELSE own[GuildKey(guildId)]
      callerSet == [own EXCEPT ![m.author] = t + l.cooldown * 1000]
      bothSet == IF guildId # "none" /\ l.globalCooldown # 0
                 THEN [callerSet EXCEPT ![GuildKey(guildId)] = t + l.globalCooldown * 1000]
                 ELSE callerSet
      skip == [result |-> "null", ran |-> FALSE, cooldowns |-> cds]
  IN IF AuthorIsBot(m.author) THEN skip
     ELSE IF guildId # "none" /\ l.globalCooldown # 0 /\ ~Falsy(global) /\ t - global < 0
     THEN skip
     ELSE IF (Falsy(own[m.author]) \/ t - own[m.author] > 0) /\ stringMatch(m.content, l.words)
     THEN IF Has(ign.guilds, guildId) \/ Has(ign.channels, m.channel)
          THEN [result |-> "undefined", ran |-> FALSE, cooldowns |-> cds]
          ELSE IF outcome = "throw"
          THEN [result |-> "throw", ran |-> TRUE, cooldowns |-> cds]
          ELSE [result |-> outcome, ran |-> TRUE,
                cooldowns |-> [cds EXCEPT ![l.id] = bothSet]]
     ELSE skip

\* a sort that is not stable: of the listeners of least priority the one
\* registered last comes first
RECURSIVE SortByPriority_Unstable(_)
SortByPriority_Unstable(ls) ==
  IF ls = <<>> THEN <<>>
  ELSE LET i == CHOOSE k \in 1..Len(ls) :
                  /\ \A j \in 1..Len(ls) : ls[k].priority <= ls[j].priority
                  /\ \A j \in (k + 1)..Len(ls) : ls[j].priority > ls[k].priority
       IN <<ls[i]>> \o SortByPriority_Unstable(SubSeq(ls, 1, i - 1)
                                                \o SubSeq(ls, i + 1, Len(ls)))

\* Array.prototype.sort((a, b) => a.priority - b.priority), stable
RECURSIVE SortByPriority(_)
SortByPriority(ls) ==
  IF ls = <<>> THEN <<>>
  ELSE LET i == CHOOSE k \in 1..Len(ls) :
                  /\ \A j \in 1..Len(ls) : ls[k].priority <= ls[j].priority
                  /\ \A j \in 1..(k - 1) : ls[j].priority > ls[k].priority
       IN <<ls[i]>> \o SortByPriority(SubSeq(ls, 1, i - 1) \o SubSeq(ls, i + 1, Len(ls)))

\* ListenerRunner.constructor: mappedListeners after the first k listeners
\* of registered (category -> listeners, <<>> for a category not yet seen)
RECURSIVE MapListeners(_, _)
MapListeners(registered, k) ==
  IF k = 0 THEN [c \in { CategoryOf(registered[i]) : i \in 1..Len(registered) } |-> <<>>]
  ELSE LET before == MapListeners(registered, k - 1)
           c == CategoryOf(registered[k])
       IN [before EXCEPT ![c] = SortByPriority(Append(@, registered[k]))]

mappedListeners == MapListeners(botListeners, Len(botListeners))

\* Object.entries(this.mappedListeners): the categories in the order in
\* which their first listener was registered
RECURSIVE EntriesOf(_, _)
EntriesOf(registered, k) ==
  IF k = 0 THEN <<>>
  ELSE LET before == EntriesOf(registered, k - 1)
           c == CategoryOf(registered[k])
       IN IF \E i \in 1..Len(before) : before[i] = c THEN before ELSE Append(before, c)

Entries == EntriesOf(botListeners, Len(botListeners))

(***************************************************************************)
(* Construction of a ListenerRunner over any registration: up to           *)
(* MaxRegistered listeners, each with a priority and with a category or    *)
(* without one; a listener's id is its place in the registration order.    *)
(***************************************************************************)
MaxRegistered == 3
OrderPriorities == -1..1
OrderCategories == {"", "chat", "other"}
Registrations ==
  UNION { { [i \in 1..n |-> [id |-> i, priority |-> f[i].priority,
                             category |-> f[i].category]] :
              f \in [1..n -> [priority : OrderPriorities,
                              category : OrderCategories]] } :
          n \in 0..MaxRegistered }

ConstructCalls ==
  { [op |-> "construct", registered |-> reg, done |-> FALSE, mappedListeners |-> <<>>] :
      reg \in Registrations }

\* new ListenerRunner(bot, options)
Construct ==
  /\ call.op = "construct" /\ ~call.done
  /\ call' = [call EXCEPT !.done = TRUE,
                !.mappedListeners = MapListeners(call.registered, Len(call.registered))]
  /\ PipelineUnchanged

InitOrder == PipelineIdle /\ call \in ConstructCalls
SpecOrder == InitOrder /\ [][Construct]_vars

\* listener.send = (...args) => safeSend(...args): the helper stored on
\* the listener sends to message.channel of the callback that stored it
safeSendInjected(snd, l, m) == [snd EXCEPT ![l.id] = m.channel]

\* runListenersInCategory: the loop from its i-th listener on, up to the
\* first evaluation that is a pending promise (wait: its index) or to the
\* end of the loop (wait = 0); and the loop from the point where the
\* evaluation of the i-th listener is known (res; "throw": it threw or
\* rejected)
RECURSIVE runListenersFrom(_, _, _, _, _, _, _, _)
RECURSIVE evaluationSettled(_, _, _, _, _, _, _, _, _)
runListenersFrom(ls, i, n, m, t, ign, st, h) ==
  IF i > Len(ls) THEN [st |-> st, wait |-> 0]
  ELSE IF Len(m.content) > ls[i].maxMessageLength
  THEN runListenersFrom(ls, i + 1, n, m, t, ign, st, h)
  ELSE LET injected == safeSendInjected(st.send, ls[i], m)
           ev == evaluate(ls[i], m, t, ign, st.cooldowns, h[ls[i].id])
           st1 == Engine(ev.cooldowns,
                         IF ev.ran
                         THEN Append(st.heard, Hd("run", n, m, ls[i].id, t, ev.result))
                         ELSE st.heard,
                         injected)
       IN IF ev.result = "promise" THEN [st |-> st1, wait |-> i]
          ELSE evaluationSettled(ls, i, n, m, t, ign, st1, h, ev.result)

evaluationSettled(ls, i, n, m, t, ign, st, h, res) ==
  IF res = "throw"
  THEN [st |-> Engine(st.cooldowns,
                      Append(st.heard, Hd("error", n, m, ls[i].id, t, "handler")), st.send),
        wait |-> 0]
  ELSE LET st1 == IF res \in {"true", "false"}
                  THEN Engine(st.cooldowns,
                              Append(st.heard, Hd("listener", n, m, ls[i].id, t, res)),
                              st.send)
                  ELSE st
       IN IF res = "true" THEN [st |-> st1, wait |-> 0]
          ELSE runListenersFrom(ls, i + 1, n, m, t, ign, st1, h)

\* runAllListenersFrom that starts no further category loop once a loop
\* has ended with an error
RECURSIVE runAllListenersFrom_AbortOnError(_, _, _, _, _, _, _, _)
runAllListenersFrom_AbortOnError(k, n, m, t, ign, st, h, wait) ==
  IF k > Len(Entries) THEN [st |-> st, wait |-> wait]
  ELSE IF st.heard # <<>> /\ st.heard[Len(st.heard)].ev = "error"
  THEN [st |-> st, wait |-> wait]
  ELSE LET r == runListenersFrom(mappedListeners[Entries[k]], 1, n, m, t, ign, st, h)
       IN runAllListenersFrom_AbortOnError(k + 1, n, m, t, ign, r.st, h,
                                           [wait EXCEPT ![Entries[k]] = r.wait])

\* runAllListeners: every category loop is started, in the order of the
\* entries, and runs up to its first suspension
RECURSIVE runAllListenersFrom(_, _, _, _, _, _, _, _)
runAllListenersFrom(k, n, m, t, ign, st, h, wait) ==
  IF k > Len(Entries) THEN [st |-> st, wait |-> wait]
  ELSE LET r == runListenersFrom(mappedListeners[Entries[k]], 1, n, m, t, ign, st, h)
       IN runAllListenersFrom(k + 1, n, m, t, ign, r.st, h,
                              [wait EXCEPT ![Entries[k]] = r.wait])

runAllListeners(n, m, t, ign, st, h) ==
  runAllListenersFrom(1, n, m, t, ign, st, h, [c \in Categories |-> 0])

\* the record of a callback whose category loops wait as in wait
Waiting(rec, wait) ==
  [rec EXCEPT !.wait = wait,
              !.pc = IF \A c \in Categories : wait[c] = 0 THEN "done" ELSE "running"]

IgnoreListUnchanged == UNCHANGED <<ignored, ignoreTimers, ignoreCalls>>
CommandSideUnchanged ==
  UNCHANGED <<prefixCheckers, contextExtenders, timestamps, timers, run, call>>

\* the engine goes on with the record rec of callback e and the state st
Heed(e, rec, st) ==
  /\ listening' = [listening EXCEPT ![e] = rec]
  /\ listenerCooldowns' = st.cooldowns
  /\ heard' = st.heard
  /\ listenerSend' = st.send
  /\ IgnoreListUnchanged
  /\ CommandSideUnchanged
  /\ UNCHANGED now

\* the guards of the messageCreate callback of ListenerRunner.listen
Unheard(m, ign) ==
  \/ AuthorIsBot(m.author)
  \/ GuildIn(m.channel) = "none"
  \/ Has(ign.guilds, GuildIn(m.channel))
  \/ Has(ign.channels, m.channel)

\* a message event: the messageCreate callback up to its first suspension
Listen(e, msgs, max, hs) ==
  /\ listening[e].pc \in {"idle", "done"}
  /\ delivered < max
  /\ delivered' = delivered + 1
  /\ \E m \in msgs : \E h \in hs :
       LET rec == [IdleHearing EXCEPT !.msg = m, !.n = delivered + 1]
       IN IF Unheard(m, ignored) THEN Heed(e, [rec EXCEPT !.pc = "done"], CurEngine)
          ELSE IF contextExtenders > 0
          THEN Heed(e, [rec EXCEPT !.pc = "extend", !.idx = 1], CurEngine)
          ELSE LET r == runAllListeners(rec.n, m, now, ignored, CurEngine, h)
               IN Heed(e, Waiting(rec, r.wait), r.st)

\* the context extender awaited by the callback settles
ListenExtend(e, hs) ==
  /\ listening[e].pc = "extend"
  /\ UNCHANGED delivered
  /\ \E res \in {"ok", "throw"} : \E h \in hs :
       LET rec == listening[e]
       IN IF res = "throw"
          THEN Heed(e, [rec EXCEPT !.pc = "done"],
                    Engine(listenerCooldowns,
                           Append(heard, Hd("error", rec.n, rec.msg, "", now,
                                            "context extension")),
                           listenerSend))
          ELSE IF rec.idx < contextExtenders
          THEN Heed(e, [rec EXCEPT !.idx = @ + 1], CurEngine)
          ELSE LET r == runAllListeners(rec.n, rec.msg, now, ignored, CurEngine, h)
               IN Heed(e, Waiting(rec, r.wait), r.st)

\* the promise returned by a handler settles: the loop of its category
\* goes on
ListenSettle(e, c, hs) ==
  /\ listening[e].pc = "running"
  /\ listening[e].wait[c] > 0
  /\ UNCHANGED delivered
  /\ \E res \in Settlements : \E h \in hs :
       LET rec == listening[e]
           l == mappedListeners[c][rec.wait[c]]
           r == evaluationSettled(mappedListeners[c], rec.wait[c], rec.n, rec.msg, now,
                                  ignored,
                                  Engine(listenerCooldowns,
                                         Append(heard, Hd("settled", rec.n, rec.msg, l.id,
                                                          now, res)),
                                         listenerSend),
                                  h, IF res = "reject" THEN "throw" ELSE res)
       IN Heed(e, Waiting(rec, [rec.wait EXCEPT ![c] = r.wait]), r.st)

(***************************************************************************)
(* ListenerIgnoreList.                                                     *)
(***************************************************************************)
IgnoreDurations == {0, TickMs, 2 * TickMs}

EngineUnchanged ==
  UNCHANGED <<listenerCooldowns, listening, heard, listenerSend, delivered>>

\* clearTimeout(handle): the timer, if still pending, is cancelled
clearTimeout(tms, handle) == { tm \in tms : tm.handle # handle }

\* list.set(id, { start, duration, timeout }) of ignoreChannel/ignoreGuild
\* at time t, handle being the handle of a new timer
ignoreIn(list, name, tms, id, duration, t, handle) ==
  LET cleared == IF list[id] # NoEntry /\ list[id].timeout # 0
                 THEN clearTimeout(tms, list[id].timeout) ELSE tms
  IN [list |-> [list EXCEPT ![id] = IgnoreSettings(t, duration,
                                                   IF duration # 0 THEN handle ELSE 0)],
      timers |-> IF duration # 0
                 THEN cleared \cup {[handle |-> handle, list |-> name, id |-> id,
                                     due |-> t + duration]}
                 ELSE cleared]

\* listenChannel/listenGuild
listenIn(list, tms, id) ==
  IF list[id] # NoEntry
  THEN [list |-> [list EXCEPT ![id] = NoEntry],
        timers |-> IF list[id].timeout # 0 THEN clearTimeout(tms, list[id].timeout) ELSE tms]
  ELSE [list |-> list, timers |-> tms]

IgnoreListCall(max) ==
  /\ ignoreCalls < max
  /\ ignoreCalls' = ignoreCalls + 1
  /\ EngineUnchanged
  /\ CommandSideUnchanged
  /\ UNCHANGED now

\* ignored.ignoreChannel(id, duration)
IgnoreChannel(id, duration, max) ==
  /\ IgnoreListCall(max)
  /\ LET r == ignoreIn(ignored.channels, "channels", ignoreTimers, id, duration, now,
                       ignoreCalls + 1)
     IN /\ ignored' = [ignored EXCEPT !.channels = r.list]
        /\ ignoreTimers' = r.timers

\* ignored.ignoreGuild(id, duration)
IgnoreGuild(id, duration, max) ==
  /\ IgnoreListCall(max)
  /\ LET r == ignoreIn(ignored.guilds, "guilds", ignoreTimers, id, duration, now,
                       ignoreCalls + 1)
     IN /\ ignored' = [ignored EXCEPT !.guilds = r.list]
        /\ ignoreTimers' = r.timers

\* ignored.listenChannel(id)
ListenChannel(id, max) ==
  /\ IgnoreListCall(max)
  /\ LET r == listenIn(ignored.channels, ignoreTimers, id)
     IN /\ ignored' = [ignored EXCEPT !.channels = r.list]
        /\ ignoreTimers' = r.timers

\* ignored.listenGuild(id)
ListenGuild(id, max) ==
  /\ IgnoreListCall(max)
  /\ LET r == listenIn(ignored.guilds, ignoreTimers, id)
     IN /\ ignored' = [ignored EXCEPT !.guilds = r.list]
        /\ ignoreTimers' = r.timers

\* the function that clear() declares under the name clearTimeout and
\* applies to every entry: (ignored) => ignored.timeout ?
\* clearTimeout(ignored.timeout) : null.  Inside its own body the name
\* denotes this function, not the global one: it is applied a second time,
\* to the timer handle, whose timeout property is undefined, and returns
\* null.  No timer is cancelled
HandleTimeout == 0
clearTimeoutOfClear(tms, entry) ==
  IF entry.timeout # 0
  THEN (IF HandleTimeout # 0 THEN clearTimeout(tms, HandleTimeout) ELSE tms)
  ELSE tms

RECURSIVE forEachClearTimeout(_, _)
forEachClearTimeout(tms, entries) ==
  IF entries = {} THEN tms
  ELSE LET x == CHOOSE y \in entries : TRUE
       IN forEachClearTimeout(clearTimeoutOfClear(tms, x), entries \ {x})

Entered(list) == { list[id] : id \in { k \in DOMAIN list : list[k] # NoEntry } }

\* ignored.clear()
Clear(max) ==
  /\ IgnoreListCall(max)
  /\ ignoreTimers' = forEachClearTimeout(forEachClearTimeout(ignoreTimers,
                                                            Entered(ignored.guilds)),
                                         Entered(ignored.channels))
  /\ ignored' = [guilds |-> [g \in ListenerGuilds |-> NoEntry],
                 channels |-> [c \in ListenerChannels |-> NoEntry]]

\* the timer of an ignore call fires: () => list.delete(id)
IgnoreExpiry ==
  \E tm \in ignoreTimers :
    /\ now >= tm.due
    /\ ignored' = [ignored EXCEPT ![tm.list][tm.id] = NoEntry]
    /\ ignoreTimers' = ignoreTimers \ {tm}
    /\ UNCHANGED ignoreCalls
    /\ EngineUnchanged
    /\ CommandSideUnchanged
    /\ UNCHANGED now

\* time passes for the listener engine; a timer that is due fires before
\* the clock moves on
ListenerTick ==
  /\ now < (MaxListenerTicks + 1) * TickMs
  /\ \A tm \in ignoreTimers : tm.due > now
  /\ now' = now + TickMs
  /\ IgnoreListUnchanged
  /\ EngineUnchanged
  /\ CommandSideUnchanged

\* the messages given to the listener engine
W_yo == <<"y", "o">>
ListenMessages ==
  { M("u1", "txt", W_hi),
    M("u1", "txt", W_no),
    M("u1", "txt", W_hi \o <<" ">> \o W_no),
    M("u1", "txt", W_yo),
    M("own", "txt", W_hi),
    M("u1", "nsfw", W_hi),
    M("u1", "far", W_hi),
    M("u1", "dm", W_hi),
    M("bot", "txt", W_hi) }

\* the state after construction, at a time of day after the epoch
CommandSideIdle ==
  /\ prefixCheckers = 0
  /\ timestamps = [n \in Collections |-> [u \in Users |-> Absent]]
  /\ timers = {}
  /\ run = [r \in Runs |-> IdleRun]
  /\ delivered = 0
  /\ call = NoCall

InitListen ==
  /\ now = TickMs
  /\ contextExtenders \in 0..MaxExtenders
  /\ CommandSideIdle
  /\ ListenerIdle

\* one message at a time, while the ignore list of its guild and channel
\* is changed
NextListen ==
  \/ Listen("h1", ListenMessages, MaxHeard, Handlers)
  \/ ListenExtend("h1", Handlers)
  \/ \E c \in Categories : ListenSettle("h1", c, Handlers)
  \/ IgnoreChannel("txt", 0, MaxListenIgnores)
  \/ IgnoreGuild("g1", 0, MaxListenIgnores)

SpecListen == InitListen /\ [][NextListen]_vars

InitIgnore ==
  /\ now = TickMs
  /\ contextExtenders = 0
  /\ CommandSideIdle
  /\ ListenerIdle

\* messages that match the listeners of the category chat, from two
\* callers and in two guilds, while time passes
CooldownMessages ==
  { M("u1", "txt", W_hi), M("own", "txt", W_hi), M("u1", "far", W_hi) }

\* handlers whose first one of the category chat stops the chain, fails
\* or answers later
CooldownHandlers ==
  { h \in Handlers : h["greet"] \in {"true", "throw", "promise"} /\ h["reply"] = "true"
                       /\ h["warn"] = "undefined" }

NextListenCooldown ==
  \/ Listen("h1", CooldownMessages, MaxCooldownHeard, CooldownHandlers)
  \/ \E c \in Categories : ListenSettle("h1", c, CooldownHandlers)
  \/ ListenerTick

SpecListenCooldown == InitIgnore /\ [][NextListenCooldown]_vars

\* a handler that returned a promise goes on after its suspension and
\* calls this.send(...) of its listener, once: the message goes to the
\* channel of the helper that the listener holds at that time
HandlerSend(e, c) ==
  /\ listening[e].pc = "running"
  /\ listening[e].wait[c] > 0
  /\ LET rec == listening[e]
         l == mappedListeners[c][rec.wait[c]]
     IN /\ \A i \in 1..Len(heard) :
             ~(heard[i].ev = "send" /\ heard[i].n = rec.n /\ heard[i].listener = l.id)
        /\ heard' = Append(heard, Hd("send", rec.n, rec.msg, l.id, now, listenerSend[l.id]))
  /\ UNCHANGED <<listenerCooldowns, listening, listenerSend, delivered, now>>
  /\ IgnoreListUnchanged
  /\ CommandSideUnchanged

\* messages of two callers in channels of two guilds, handled by two
\* callbacks in flight at once; greet answers after a suspension
MaxSendHeard == 2
SendMessages ==
  { M("u1", "txt", W_hi), M("own", "far", W_hi), M("own", "far", W_yo) }
SendHandlers ==
  { h \in Handlers : h["greet"] = "promise" /\ h["reply"] = "true" /\ h["warn"] = "undefined" }

NextSend ==
  \/ \E e \in Hearings : Listen(e, SendMessages, MaxSendHeard, SendHandlers)
  \/ \E e \in Hearings : \E c \in Categories : ListenSettle(e, c, SendHandlers)
  \/ \E e \in Hearings : \E c \in Categories : HandlerSend(e, c)

SpecSend == InitIgnore /\ [][NextSend]_vars

\* the ignore list alone
NextIgnore ==
  \/ \E id \in {"txt", "nsfw"} : \E d \in IgnoreDurations : IgnoreChannel(id, d, MaxIgnoreCalls)
  \/ \E d \in IgnoreDurations : IgnoreGuild("g1", d, MaxIgnoreCalls)
  \/ \E id \in {"txt", "nsfw"} : ListenChannel(id, MaxIgnoreCalls)
  \/ ListenGuild("g1", MaxIgnoreCalls)
  \/ Clear(MaxIgnoreCalls)
  \/ IgnoreExpiry
  \/ ListenerTick

SpecIgnore == InitIgnore /\ [][NextIgnore]_vars

(***************************************************************************)
(* The transient feedback of the gates, while time passes.                 *)
(***************************************************************************)
\* message events delivered where the feedback is examined
MaxFeedbackMessages == 2
\* messages that a gate answers with feedback, and one that passes
FeedbackMessages ==
  { M("u1", "txt", <<"!", "p", "i", "n", "g">>),
    M("u1", "txt", <<"!", "e", "v", "a", "l">>),
    M("own", "txt", <<"!", "e", "v", "a", "l">>),
    M("u1", "txt", <<"!", "s", "e", "c">>),
    M("own", "txt", <<"!", "s", "e", "c">>),
    M("u1", "txt", <<"!", "l", "e", "w", "d">>) }

\* time passes: up to MaxTicks steps, and for as long as the wait of a
\* feedback is pending; a timer that is due fires before the clock moves on
Elapse ==
  /\ \/ now < MaxTicks * TickMs
     \/ \E r \in Runs : run[r].pc = "fbWait" /\ now < run[r].sentAt + FeedbackDelay
  /\ \A tm \in timers : tm.due > now
  /\ now' = now + TickMs
  /\ UNCHANGED <<prefixCheckers, contextExtenders, timestamps, timers, run, delivered, call>>
  /\ UNCHANGED listenerVars

InitFeedback ==
  /\ now = 0
  /\ contextExtenders = 0
  /\ CommandSideIdle
  /\ ListenerIdle

FeedbackStart == delivered < MaxFeedbackMessages /\ Start("r1", FeedbackMessages)

NextFeedback ==
  \/ FeedbackStart
  \/ FetchMember("r1")
  \/ FeedbackSend("r1")
  \/ FeedbackDelete("r1")
  \/ HandlerSettle("r1")
  \/ EvictionTimer
  \/ Elapse

\* timers fire when they are due and the promise of a send or of a delete
\* settles
SpecFeedback ==
  /\ InitFeedback
  /\ [][NextFeedback]_vars
  /\ WF_vars(Elapse)
  /\ WF_vars(EvictionTimer)
  /\ WF_vars(FeedbackSend("r1"))
  /\ WF_vars(FeedbackDelete("r1"))

(***************************************************************************)
(* What a run did, read from its record.                                   *)
(***************************************************************************)
Started(rec) == rec.msg # NoMsg
Finished(rec) == rec.pc = "done"
InFlight(rec) == rec.pc \notin {"idle", "done", "rejected"}

At(rec, ev) == { i \in 1..Len(rec.trace) : rec.trace[i].ev = ev }
Feedbacks(rec, kind) == { i \in At(rec, "feedback") : rec.trace[i].a = kind }
Errors(rec, source) == { i \in At(rec, "error") : rec.trace[i].a = source }
HandlerCalls(rec) == Cardinality(At(rec, "run"))
ExtensionErrors(rec) == Errors(rec, "prefix check") \cup Errors(rec, "context extension")

\* the gates, stated on the message and the registry
CommandResolved(rec) == rec.ctx.command # NoName
Cmd(rec) == commands[rec.ctx.command]
NsfwAllowed(rec) == Cmd(rec).nsfwOnly => ChannelNsfw(rec.msg.channel)
RunInAllowed(rec) ==
  IF ChannelType(rec.msg.channel) = "DM" THEN "dm" \in Cmd(rec).runIn
  ELSE Cmd(rec).runIn \cap {"text", "guild"} # {}
TierConfigured(level) == \E i \in 1..Len(permLevels) : permLevels[i].level = level
PermissionDenied(rec) == rec.ctx.permLevel < Cmd(rec).permission
ArgumentsValid(rec) == rec.ctx.validationErrors = <<>>
CooldownFree(rec) ==
  \E i \in At(rec, "getTimeLeft") : rec.trace[i].a = "free"

PassesAllGates(rec) ==
  /\ ~AuthorIsBot(rec.msg.author)
  /\ CommandResolved(rec)
  /\ NsfwAllowed(rec)
  /\ RunInAllowed(rec)
  /\ ~PermissionDenied(rec)
  /\ ArgumentsValid(rec)
  /\ CooldownFree(rec)

\* the part of a trace made of the given events
Only(rec, evs) == SelectSeq(rec.trace, LAMBDA e : e.ev \in evs)
IsPrefixOf(s, t) == Len(s) <= Len(t) /\ SubSeq(t, 1, Len(s)) = s
Names(seq) == [i \in 1..Len(seq) |-> seq[i].ev]

\* a step of run r
Steps(r) == run'[r] # run[r]
StoreUnchanged == timestamps' = timestamps /\ timers' = timers

(***************************************************************************)
(* C1: a run of a non-bot message whose prefix and command resolve and     *)
(* which passes the NSFW, run-context, permission, validation and cooldown *)
(* gates calls the command handler exactly once; no run calls it twice.    *)
(***************************************************************************)
C1_HandlerExactlyOnce ==
  \A r \in Runs :
    /\ HandlerCalls(run[r]) <= 1
    /\ (Finished(run[r]) /\ PassesAllGates(run[r])) => HandlerCalls(run[r]) = 1

C1_Witness ==
  \E r \in Runs :
    Finished(run[r]) /\ PassesAllGates(run[r]) /\ HandlerCalls(run[r]) = 1

(***************************************************************************)
(* C2: once a run has committed the cooldown of a command (cooldown > 0)   *)
(* for a caller at time t, no other run of the same command and caller     *)
(* gets through the cooldown gate before t + cooldown: two runs of one     *)
(* (command, caller) never commit less than the cooldown apart.            *)
(***************************************************************************)
SameKey(a, b) ==
  /\ a.commitAt # Absent /\ b.commitAt # Absent
  /\ a.ctx.commandName = b.ctx.commandName
  /\ a.ctx.userId = b.ctx.userId

C2_CooldownEnforced ==
  \A r \in Runs, q \in Runs :
    (r # q /\ SameKey(run[r], run[q]) /\ run[r].commitAt <= run[q].commitAt
       /\ cooldownAmount(run[r].ctx.commandName) > 0)
    => run[q].commitAt >= run[r].commitAt + cooldownAmount(run[r].ctx.commandName)

(***************************************************************************)
(* C3: when the command's runIn does not allow the origin of the message   *)
(* (no 'dm' in a DM; neither 'text' nor 'guild' in a guild channel) the    *)
(* run is dropped: no handler call, no cooldown commit, no 'command'       *)
(* event.                                                                  *)
(***************************************************************************)
C3_RunContextDrops ==
  \A r \in Runs :
    (Started(run[r]) /\ CommandResolved(run[r]) /\ ~RunInAllowed(run[r]))
    => /\ HandlerCalls(run[r]) = 0
       /\ At(run[r], "updateTimeLeft") = {}
       /\ At(run[r], "command") = {}

(***************************************************************************)
(* C4: a caller whose level is below the command's required (configured)   *)
(* level never gets the handler called nor a cooldown committed; the       *)
(* permission gate sends exactly one feedback naming the caller's and the  *)
(* required tier when the command is not hidden and none when it is; when  *)
(* the earlier gates passed that feedback is the only one of the run.      *)
(***************************************************************************)
TierName(level) ==
  permLevels[CHOOSE i \in 1..Len(permLevels) : permLevels[i].level = level].name

Denied(rec) ==
  /\ Started(rec) /\ CommandResolved(rec)
  /\ PermissionDenied(rec) /\ TierConfigured(Cmd(rec).permission)

ReachesPermissionGate(rec) ==
  /\ NsfwAllowed(rec)
  /\ ChannelType(rec.msg.channel) = "DM" => "dm" \in Cmd(rec).runIn

C4_PermissionDenied ==
  \A r \in Runs :
    Denied(run[r]) =>
      /\ HandlerCalls(run[r]) = 0
      /\ At(run[r], "updateTimeLeft") = {}
      /\ run[r].commitAt = Absent
      /\ (Finished(run[r]) /\ ReachesPermissionGate(run[r])) =>
           /\ Cardinality(Feedbacks(run[r], "permission")) =
                (IF Cmd(run[r]).hidden THEN 0 ELSE 1)
           /\ \A i \in Feedbacks(run[r], "permission") :
                /\ run[r].trace[i].b = TierName(run[r].ctx.permLevel)
                /\ run[r].trace[i].c = TierName(Cmd(run[r]).permission)
      /\ (Finished(run[r]) /\ NsfwAllowed(run[r]) /\ RunInAllowed(run[r])) =>
           Cardinality(At(run[r], "feedback")) = (IF Cmd(run[r]).hidden THEN 0 ELSE 1)

C4_Witness ==
  \E r \in Runs :
    /\ Denied(run[r]) /\ Finished(run[r]) /\ ~Cmd(run[r]).hidden
    /\ \E i \in Feedbacks(run[r], "permission") :
         run[r].trace[i].b = "User" /\ run[r].trace[i].c = "Bot Owner"

(***************************************************************************)
(* C5: a message that fails the permission gate and would also fail        *)
(* argument validation gets the permission feedback only: the validation   *)
(* feedback is never sent.                                                 *)
(***************************************************************************)
C5_PermissionBeforeValidation ==
  \A r \in Runs :
    (Started(run[r]) /\ CommandResolved(run[r]) /\ PermissionDenied(run[r])) =>
      /\ Feedbacks(run[r], "validation") = {}
      /\ (Finished(run[r]) /\ Denied(run[r]) /\ ~Cmd(run[r]).hidden
            /\ NsfwAllowed(run[r]) /\ RunInAllowed(run[r])) =>
           (At(run[r], "feedback") = Feedbacks(run[r], "permission")
              /\ Cardinality(At(run[r], "feedback")) = 1)

C5_Witness ==
  \E r \in Runs :
    /\ Finished(run[r]) /\ Denied(run[r]) /\ ~ArgumentsValid(run[r])
    /\ Feedbacks(run[r], "permission") # {}

(***************************************************************************)
(* C6: when the context carries validation errors and the earlier gates    *)
(* pass, the run sends one feedback that lists the fields in error and is  *)
(* dropped: no handler call, no 'error' event for the validation failure,  *)
(* and the cooldown store is neither read nor modified by the run.         *)
(***************************************************************************)
FailsValidation(rec) ==
  /\ Started(rec) /\ CommandResolved(rec) /\ ~ArgumentsValid(rec)

C6_ValidationDropState ==
  \A r \in Runs :
    (Finished(run[r]) /\ FailsValidation(run[r]) /\ NsfwAllowed(run[r])
       /\ RunInAllowed(run[r]) /\ ~PermissionDenied(run[r])) =>
      /\ Cardinality(At(run[r], "feedback")) = 1
      /\ At(run[r], "feedback") = Feedbacks(run[r], "validation")
      /\ \A i \in Feedbacks(run[r], "validation") :
           run[r].trace[i].list = run[r].ctx.validationErrors
      /\ HandlerCalls(run[r]) = 0
      /\ At(run[r], "error") = Errors(run[r], "context extension")
      /\ At(run[r], "getTimeLeft") = {}
      /\ At(run[r], "updateTimeLeft") = {}
      /\ run[r].commitAt = Absent

C6_ValidationDrop ==
  /\ []C6_ValidationDropState
  /\ [][\A r \in Runs : (Steps(r) /\ FailsValidation(run'[r])) => StoreUnchanged]_vars

C6_Witness ==
  \E r \in Runs :
    /\ Finished(run[r]) /\ FailsValidation(run[r]) /\ ~PermissionDenied(run[r])
    /\ Feedbacks(run[r], "validation") # {}

(***************************************************************************)
(* C7 (as claimed): a message of a bot, a message whose prefix does not    *)
(* resolve or whose command token matches no command or alias is dropped   *)
(* silently: the run sends nothing, emits no event, does not touch the     *)
(* cooldown store and calls no handler.                                    *)
(***************************************************************************)
Dropped(rec) ==
  Started(rec) /\ (AuthorIsBot(rec.msg.author) \/ ~CommandResolved(rec))

C7_SilentDrop ==
  \A r \in Runs : Dropped(run[r]) => run[r].trace = <<>>

(***************************************************************************)
(* C7 (amended): such a run sends no message, emits no 'command' event,    *)
(* does not touch the cooldown store and calls no handler; the only events *)
(* it emits are the 'error' events that report a prefix checker or a       *)
(* context extender that threw, and none when no extension is registered.  *)
(***************************************************************************)
C7_DropState ==
  \A r \in Runs :
    Dropped(run[r]) =>
      /\ \A i \in 1..Len(run[r].trace) : i \in ExtensionErrors(run[r])
      /\ AuthorIsBot(run[r].msg.author) => run[r].trace = <<>>
      /\ (prefixCheckers = 0 /\ contextExtenders = 0) => run[r].trace = <<>>
      /\ run[r].commitAt = Absent

C7_DropExtensionErrorsOnly ==
  /\ []C7_DropState
  /\ [][\A r \in Runs : (Steps(r) /\ Dropped(run'[r])) => StoreUnchanged]_vars

C7_Witness ==
  \E r \in Runs :
    /\ Finished(run[r]) /\ Dropped(run[r]) /\ run[r].ctx.prefix # <<>>
    /\ Errors(run[r], "context extension") # {}

(***************************************************************************)
(* C8: in a run that passes every gate the effects come in this order:     *)
(* cooldown commit, deletion of the invoking message (if the command's     *)
(* delete flag is set), 'command' event, handler call; in no run does the  *)
(* handler start before the cooldown is committed.                         *)
(***************************************************************************)
Effects(rec) == Names(Only(rec, {"updateTimeLeft", "delete", "command", "run"}))
ExpectedEffects(rec) ==
  IF Cmd(rec).delete THEN <<"updateTimeLeft", "delete", "command", "run">>
  ELSE <<"updateTimeLeft", "command", "run">>

C8_EffectOrder ==
  \A r \in Runs :
    (Started(run[r]) /\ CommandResolved(run[r])) =>
      /\ IsPrefixOf(Effects(run[r]), ExpectedEffects(run[r]))
      /\ (Finished(run[r]) /\ PassesAllGates(run[r])) =>
           Effects(run[r]) = ExpectedEffects(run[r])

C8_Witness ==
  \E r \in Runs :
    /\ Finished(run[r]) /\ PassesAllGates(run[r]) /\ Cmd(run[r]).delete
    /\ Effects(run[r]) = <<"updateTimeLeft", "delete", "command", "run">>

(***************************************************************************)
(* C9: when the handler throws or its promise rejects, the command error   *)
(* handler emits exactly one 'error' event that carries the command name,  *)
(* the channel and the DM flag; the run completes (it does not reject),    *)
(* and the step that reports the error changes no other run.               *)
(***************************************************************************)
HandlerFailed(rec) == rec.handler \in {"throw", "reject"}

C9_HandlerErrorState ==
  \A r \in Runs :
    /\ HandlerFailed(run[r]) =>
         /\ Finished(run[r])
         /\ Cardinality(Errors(run[r], "handler")) = 1
         /\ \A i \in Errors(run[r], "handler") :
              /\ run[r].trace[i].cmd = run[r].ctx.commandName
              /\ run[r].trace[i].b = run[r].msg.channel
              /\ run[r].trace[i].c = BoolStr(ChannelType(run[r].msg.channel) = "DM")
    /\ ~HandlerFailed(run[r]) => Errors(run[r], "handler") = {}

C9_HandlerErrorContained ==
  /\ []C9_HandlerErrorState
  /\ [][\A r \in Runs :
          (Steps(r) /\ HandlerFailed(run'[r])) =>
            \A q \in Runs \ {r} : run'[q] = run[q]]_vars

C9_Witness ==
  \E r \in Runs, q \in Runs :
    /\ r # q /\ InFlight(run[q])
    /\ Finished(run[r]) /\ run[r].handler = "reject"
    /\ Errors(run[r], "handler") # {}

(***************************************************************************)
(* C10: when a prefix checker or a context extender throws, an 'error'     *)
(* event naming the extension point is emitted and the run is aborted:     *)
(* nothing else happens in it (no later extension, no gate, no cooldown    *)
(* commit, no handler call).                                               *)
(***************************************************************************)
C10_ExtensionErrorAborts ==
  \A r \in Runs :
    ExtensionErrors(run[r]) # {} =>
      /\ At(run[r], "feedback") = {}
      /\ At(run[r], "getTimeLeft") = {}
      /\ At(run[r], "updateTimeLeft") = {}
      /\ run[r].commitAt = Absent
      /\ HandlerCalls(run[r]) = 0

(***************************************************************************)
(* C11: when the permission level declared by the resolved command has no  *)
(* entry in the configured tiers, a run that reaches the permission gate   *)
(* emits one configuration 'error' event and never calls the handler,      *)
(* whatever the caller's own level is.                                     *)
(***************************************************************************)
C11_UnconfiguredTierAborts ==
  \A r \in Runs :
    (Started(run[r]) /\ CommandResolved(run[r])
       /\ ~TierConfigured(Cmd(run[r]).permission)) =>
      /\ HandlerCalls(run[r]) = 0
      /\ run[r].commitAt = Absent
      /\ (Finished(run[r]) /\ ReachesPermissionGate(run[r])) =>
           Cardinality(Errors(run[r], "config")) = 1

(***************************************************************************)
(* C12: when the cooldown gate finds no timestamps collection for the      *)
(* resolved command, the run emits one 'error' event, calls no handler and *)
(* completes: it does not throw or reject to its caller.                   *)
(***************************************************************************)
CollectionMissing(rec) ==
  /\ Started(rec) /\ CommandResolved(rec)
  /\ rec.ctx.commandName \notin Collections
  /\ At(rec, "getTimeLeft") # {}

C12_MissingCollectionReported ==
  \A r \in Runs :
    CollectionMissing(run[r]) =>
      /\ run[r].pc # "rejected"
      /\ Cardinality(At(run[r], "error") \ ExtensionErrors(run[r])) = 1
      /\ HandlerCalls(run[r]) = 0

(***************************************************************************)
(* C13: permlevel(message) returns the greatest level among the configured *)
(* tiers whose check accepts the message, and 0 when no tier's check       *)
(* accepts it, also for a configuration without a level-0 tier.            *)
(***************************************************************************)
Accepting(config, m) ==
  { config[i].level : i \in { k \in 1..Len(config) : TierCheck(config[k].check, m) } }

Greatest(S) == CHOOSE x \in S : \A y \in S : y <= x

C13_PermlevelGreatestMatch ==
  (call.op = "permlevel" /\ call.done) =>
    call.level = IF Accepting(call.config, call.message) = {} THEN 0
                 ELSE Greatest(Accepting(call.config, call.message))

C13_Witness ==
  /\ call.op = "permlevel" /\ call.done
  /\ Len(call.config) = 2
  /\ call.config[1].level < call.config[2].level
  /\ Cardinality(Accepting(call.config, call.message)) = 2
  /\ call.level = call.config[2].level

C13_WitnessNoCatchAll ==
  /\ call.op = "permlevel" /\ call.done
  /\ call.config # <<>>
  /\ \A i \in 1..Len(call.config) : call.config[i].level # USER
  /\ Accepting(call.config, call.message) = {}
  /\ call.level = 0

(***************************************************************************)
(* C14: for a (command, caller) whose cooldown has been started by         *)
(* updateTimeLeft, getTimeLeft right after the update reports the          *)
(* command's cooldown, a later query never reports more than the query     *)
(* before it as long as no updateTimeLeft comes in between, and from the   *)
(* expiry on the query reports 0.                                          *)
(***************************************************************************)
Queried == call.op = "getTimeLeft" /\ ~call.threw /\ call.updatedAt # Absent

C14_RemainingDecreases ==
  Queried =>
    /\ call.at = call.updatedAt =>
         (call.prevLeft = Absent => call.left = 10 * commands[call.commandName].cooldown)
    /\ call.prevLeft # Absent => call.left <= call.prevLeft
    /\ call.at >= call.updatedAt + cooldownAmount(call.commandName) =>
         (call.prevLeft = Absent => call.left = 0)

(***************************************************************************)
(* C15: getTimeLeft is a query: a call of it leaves the cooldown store as  *)
(* it was (no record created, changed or removed, no timer scheduled).     *)
(***************************************************************************)
C15_QueryDoesNotMutate ==
  call.op = "getTimeLeft" => ~call.mutated

(***************************************************************************)
(* C16: getTimeLeft for a command name that is not registered returns 0,   *)
(* raises no error and leaves the cooldown store unchanged.                *)
(***************************************************************************)
C16_UnknownCommandReturnsZero ==
  (call.op = "getTimeLeft" /\ call.commandName \notin CommandNames) =>
    /\ ~call.threw
    /\ call.left = 0
    /\ ~call.mutated

(***************************************************************************)
(* C17: with prefix checkers registered, the checkers are called one at a  *)
(* time in registration order; the first answer that is not false is the   *)
(* resolved prefix and no checker is called after it; the prefix is        *)
(* unresolved when every checker answers false; the default prefix is      *)
(* matched against the content only when no checker is registered.         *)
(***************************************************************************)
Answers(rec) == rec.checks
AllFalse(seq) == \A i \in 1..Len(seq) : seq[i] = "false"

C17_CheckersInOrder ==
  \A r \in Runs :
    (Started(run[r]) /\ ~AuthorIsBot(run[r].msg.author)) =>
      LET rec == run[r]
          k == Len(Answers(rec))
      IN /\ k <= prefixCheckers
         /\ AllFalse(SubSeq(Answers(rec), 1, k - 1))
         /\ prefixCheckers = 0 =>
              rec.ctx.prefix = validatePrefix(rec.msg.content, DefaultPrefix)
         /\ (prefixCheckers > 0 /\ rec.pc = "prefix") =>
              (rec.idx = k + 1 /\ AllFalse(Answers(rec)) /\ rec.ctx.prefix = <<>>)
         /\ (prefixCheckers > 0 /\ rec.pc # "prefix") =>
              /\ k >= 1
              /\ Answers(rec)[k] = "prefix" => rec.ctx.prefix = CustomPrefix
              /\ Answers(rec)[k] = "throw" => rec.ctx.prefix = <<>>
              /\ Answers(rec)[k] = "false" =>
                   (k = prefixCheckers /\ rec.ctx.prefix = <<>>
                      /\ Finished(rec) /\ rec.trace = <<>>)

C17_Witness ==
  \E r \in Runs :
    /\ prefixCheckers = 2
    /\ Answers(run[r]) = <<"false", "prefix">>
    /\ run[r].ctx.prefix = CustomPrefix
    /\ Finished(run[r]) /\ HandlerCalls(run[r]) = 1

(***************************************************************************)
(* C18: without a guild prefix map, prefix validation returns the default  *)
(* prefix exactly when the content, after trimming, lower-casing and       *)
(* collapsing of whitespace, starts with the default prefix, and false     *)
(* otherwise: "!ping" gives "!" and "ping" gives false for the prefix "!". *)
(***************************************************************************)
\* the content, from its first character that is not whitespace on, spells
\* the (whitespace-free) prefix p when lower-cased
Spells(content, p) ==
  LET f == Len(content) - Len(TrimLeft(content))
  IN \A i \in 1..Len(p) : f + i <= Len(content) /\ Lower(content[f + i]) = p[i]

Validated == call.op = "validatePrefix" /\ call.done

C18_DefaultPrefixMatch ==
  (Validated /\ ~call.guildPrefixes.map) =>
    /\ call.prefix = IF Spells(call.content, call.defaultPrefix)
                     THEN call.defaultPrefix ELSE <<>>
    /\ (call.content = <<"!", "p", "i", "n", "g">> /\ call.defaultPrefix = <<"!">>) =>
         call.prefix = <<"!">>
    /\ (call.content = <<"p", "i", "n", "g">> /\ call.defaultPrefix = <<"!">>) =>
         call.prefix = <<>>

C18_Witness ==
  /\ Validated /\ ~call.guildPrefixes.map
  /\ call.content = <<" ", "!", "P">> /\ call.defaultPrefix = <<"!">>
  /\ call.prefix = <<"!">>

(***************************************************************************)
(* C19: with a guild prefix map, an override equal to the default prefix    *)
(* counts as no override; with an override that differs from the default,  *)
(* a message that starts with the override resolves to the override and a  *)
(* message that starts with the default prefix resolves to false; the      *)
(* result is false or a prefix the normalized content starts with.         *)
(***************************************************************************)
Override ==
  IF call.guildPrefixes.prefix = call.defaultPrefix THEN <<>> ELSE call.guildPrefixes.prefix

ResultIsPrefixOfContent ==
  call.prefix # <<>> =>
    /\ call.prefix \in {call.defaultPrefix, call.guildPrefixes.prefix}
    /\ Spells(call.content, call.prefix)

NoOverrideCase ==
  Override = <<>> =>
    call.prefix = IF Spells(call.content, call.defaultPrefix)
                  THEN call.defaultPrefix ELSE <<>>

C19_GuildOverride ==
  (Validated /\ call.guildPrefixes.map) =>
    /\ NoOverrideCase
    /\ Override # <<>> =>
         /\ Spells(call.content, Override) => call.prefix = Override
         /\ Spells(call.content, call.defaultPrefix) => call.prefix = <<>>
    /\ ResultIsPrefixOfContent

(***************************************************************************)
(* C20 (as claimed): splitCommandAndArguments strips the prefix from the   *)
(* trimmed content, collapses runs of whitespace and newlines to single    *)
(* spaces and splits on spaces; the command is the first token, lower-     *)
(* cased, and the args are the remaining tokens, in order and with their   *)
(* case kept: "!hello there friend" with prefix "!" gives the command      *)
(* "hello" and the args "there", "friend".                                 *)
(***************************************************************************)
\* the text after the prefix
Body == Substr(Trim(call.content), Len(call.prefix))

\* position i of the body is turned into (part of) a separating space: a
\* space, a newline, or a whitespace character next to another one
Separates(i) ==
  \/ Body[i] \in {" ", "\n"}
  \/ /\ IsWs(Body[i])
     /\ \/ (i > 1 /\ IsWs(Body[i - 1]))
        \/ (i < Len(Body) /\ IsWs(Body[i + 1]))

\* the tokens: the maximal stretches without a separator, in order, after
\* an empty token when the body is empty or begins with a separator
TokenStarts ==
  { i \in 1..Len(Body) : ~Separates(i) /\ (i = 1 \/ Separates(i - 1)) }
TokenEnd(i) ==
  CHOOSE j \in i..Len(Body) :
    /\ \A k \in i..j : ~Separates(k)
    /\ (j = Len(Body) \/ Separates(j + 1))
NthStart(n) == CHOOSE i \in TokenStarts : Cardinality({ j \in TokenStarts : j < i }) = n - 1
Words == [n \in 1..Cardinality(TokenStarts) |-> SubSeq(Body, NthStart(n), TokenEnd(NthStart(n)))]
Tokens == IF Body = <<>> \/ Separates(1) THEN <<<<>>>> \o Words ELSE Words

SplitDone == call.op = "split" /\ call.done

HelloExample ==
  call.content = Hello =>
    /\ call.command = <<"h", "e", "l", "l", "o">>
    /\ call.args = << <<"t", "h", "e", "r", "e">>, <<"f", "r", "i", "e", "n", "d">> >>

C20_SplitTokens ==
  SplitDone =>
    /\ call.command = ToLower(Tokens[1])
    /\ call.args = Tail(Tokens)
    /\ HelloExample

(***************************************************************************)
(* C20 (amended): as above, but the command is the first token trimmed and *)
(* lower-cased: a whitespace character that is left at an end of the first *)
(* token (a single tab is neither collapsed nor split on) is removed from  *)
(* the command.                                                            *)
(***************************************************************************)
C20_SplitTokensTrimmed ==
  SplitDone =>
    /\ call.command = ToLower(Trim(Tokens[1]))
    /\ call.args = Tail(Tokens)
    /\ HelloExample

C20_Witness ==
  /\ SplitDone
  /\ call.content = <<"!", "\t", "P", " ">>
  /\ Tokens = << <<"\t", "P">> >>
  /\ call.command = <<"p">>
  /\ call.args = <<>>

(***************************************************************************)
(* C21: a command registered under a name with an alias resolves to the    *)
(* same command (context.command, context.commandName) whether it is       *)
(* invoked by the name or by the alias, and context.calledByAlias is true  *)
(* exactly when the command token matched no command name and was resolved *)
(* through the alias map.                                                  *)
(***************************************************************************)
Resolved == call.op = "resolve" /\ call.done

\* the context of the same call made with the registered name of the
\* command of alias a in place of the token
ByName(a) ==
  buildCommandContext(M(call.author, call.channel, Invocation(aliases[a], call.tail)),
                      DefaultPrefix)

C21_AliasResolution ==
  Resolved =>
    /\ call.token \in AliasNames =>
         /\ call.ctx.command = aliases[call.token]
         /\ call.ctx.command = ByName(call.token).command
         /\ call.ctx.commandName = ByName(call.token).commandName
    /\ call.ctx.calledByAlias <=>
         /\ ToLower(call.token) \notin CommandNames
         /\ ToLower(call.token) \in AliasNames

(***************************************************************************)
(* What the listener engine did, read from heard.                          *)
(***************************************************************************)
\* the entries added to heard by a step
Added == { i \in 1..Len(heard') : i > Len(heard) }
HeardAt(ev) == { i \in 1..Len(heard) : heard[i].ev = ev }
\* the handler calls made for message n, and those of one listener
RunsFor(n) == { i \in HeardAt("run") : heard[i].n = n }
RunsOf(n, id) == { i \in RunsFor(n) : heard[i].listener = id }
ListenerOf(id) == botListeners[CHOOSE i \in 1..Len(botListeners) : botListeners[i].id = id]

(***************************************************************************)
(* C22: no listener handler is called for a message that is authored by a  *)
(* bot, that has no guild, or whose guild or channel is in the ignore list *)
(* at the time of the call; this holds for every listener of every         *)
(* category.                                                               *)
(***************************************************************************)
C22_NoHandlerWhenUnheard ==
  [][\A i \in Added :
       heard'[i].ev = "run" =>
         /\ ~AuthorIsBot(heard'[i].author)
         /\ GuildIn(heard'[i].channel) # "none"
         /\ ~Has(ignored.guilds, GuildIn(heard'[i].channel))
         /\ ~Has(ignored.channels, heard'[i].channel)]_vars

\* a message whose first listener was called and answered false after its
\* guild had been ignored: the next listener of the category, which
\* matches as well, was evaluated and not called
C22_Witness ==
  /\ listening["h1"].pc = "done"
  /\ listening["h1"].msg = M("u1", "txt", W_hi)
  /\ Has(ignored.guilds, "g1")
  /\ \E i \in RunsOf(1, "greet") : heard[i].result = "promise"
  /\ \E i \in HeardAt("listener") : heard[i].listener = "greet" /\ heard[i].result = "false"
  /\ RunsOf(1, "reply") = {}

(***************************************************************************)
(* C23: within one category, once a listener matched a message and its     *)
(* handler was called, evaluation of the category stops for that message,  *)
(* whatever the handler returns: no later listener of the category is      *)
(* evaluated, so at most one handler per category runs for a message.      *)
(***************************************************************************)
RunsIn(n, c) == { i \in RunsFor(n) : CategoryOf(ListenerOf(heard[i].listener)) = c }

C23_FirstMatchStopsCategory ==
  \A n \in 1..MaxHeard : \A c \in Categories : Cardinality(RunsIn(n, c)) <= 1

(***************************************************************************)
(* C24: after the handler of listener L ran for caller A in guild G at     *)
(* time t, it does not run again for A before t + L.cooldown seconds, and, *)
(* if L has a global cooldown g, it does not run for any caller in G       *)
(* before t + g seconds; a global cooldown set in G does not suppress L    *)
(* for a message in another guild.                                         *)
(***************************************************************************)
\* handler calls i, then j, of one listener
Again(i, j) ==
  /\ i \in HeardAt("run") /\ j \in HeardAt("run")
  /\ i < j
  /\ heard[i].listener = heard[j].listener

CallerClockKept ==
  \A i, j \in 1..Len(heard) :
    Again(i, j) /\ heard[i].author = heard[j].author =>
      heard[j].at >= heard[i].at + ListenerOf(heard[i].listener).cooldown * 1000

GlobalClockKept ==
  \A i, j \in 1..Len(heard) :
    /\ Again(i, j)
    /\ ListenerOf(heard[i].listener).globalCooldown # 0
    /\ GuildIn(heard[i].channel) = GuildIn(heard[j].channel)
    => heard[j].at >= heard[i].at + ListenerOf(heard[i].listener).globalCooldown * 1000

\* the first listener of a category is called for a message it matches
\* whenever neither the clock of the caller nor the clock of the guild of
\* the message is running
FirstListeners == { mappedListeners[c][1].id : c \in Categories }
ClocksFree(id, m) ==
  /\ \/ Falsy(listenerCooldowns[id][m.author])
     \/ now > listenerCooldowns[id][m.author]
  /\ \/ ListenerOf(id).globalCooldown = 0
     \/ Falsy(listenerCooldowns[id][GuildKey(GuildIn(m.channel))])
     \/ now >= listenerCooldowns[id][GuildKey(GuildIn(m.channel))]
OtherGuildNotSuppressed ==
  \A e \in Hearings : \A id \in FirstListeners :
    /\ delivered' = delivered + 1
    /\ listening'[e].n = delivered'
    /\ stringMatch(listening'[e].msg.content, ListenerOf(id).words)
    /\ ClocksFree(id, listening'[e].msg)
    => \E i \in Added : heard'[i].ev = "run" /\ heard'[i].listener = id

C24_ListenerCooldownClocks ==
  /\ [](CallerClockKept /\ GlobalClockKept)
  /\ [][OtherGuildNotSuppressed]_vars

(***************************************************************************)
(* C25: when a listener handler throws, or the promise it returned         *)
(* rejects, an 'error' event is emitted and the loop of that listener's    *)
(* category ends for the message; every other category is still evaluated  *)
(* for the message and calls its own matching handler; the callback of the *)
(* message event itself never fails.                                       *)
(***************************************************************************)
\* entry i records a handler failure
Failure(i) ==
  \/ heard[i].ev = "run" /\ heard[i].result = "throw"
  \/ heard[i].ev = "settled" /\ heard[i].result = "reject"
HandlerError(i) == heard[i].ev = "error" /\ heard[i].result = "handler"
SameCategory(i, j) ==
  /\ heard[i].n = heard[j].n
  /\ CategoryOf(ListenerOf(heard[i].listener)) = CategoryOf(ListenerOf(heard[j].listener))

FailureReported ==
  \A i \in 1..Len(heard) :
    Failure(i) =>
      /\ i < Len(heard)
      /\ HandlerError(i + 1)
      /\ heard[i + 1].n = heard[i].n /\ heard[i + 1].listener = heard[i].listener

FailureEndsCategory ==
  \A i, j \in 1..Len(heard) :
    HandlerError(i) /\ i < j /\ heard[j].ev \in {"run", "settled", "listener", "error"}
      /\ heard[j].listener # "" => ~SameCategory(i, j)

\* the step in which the category loops of the message of callback e start
StartsLoops(e) ==
  /\ listening[e].pc \in {"idle", "done", "extend"}
  /\ listening'[e].pc \in {"running", "done"}
  /\ listening'[e] # listening[e]
  /\ ~Unheard(listening'[e].msg, ignored)
  /\ \A i \in Added : heard'[i].result # "context extension"

\* whatever the listeners of the other categories do, the first listener
\* of a category is called for a message it matches
EveryCategoryEvaluated ==
  \A e \in Hearings : \A id \in FirstListeners :
    /\ StartsLoops(e)
    /\ stringMatch(listening'[e].msg.content, ListenerOf(id).words)
    /\ Len(listening'[e].msg.content) <= ListenerOf(id).maxMessageLength
    /\ ClocksFree(id, listening'[e].msg)
    => \E i \in Added : /\ heard'[i].ev = "run" /\ heard'[i].listener = id
                        /\ heard'[i].n = listening'[e].n

\* the callback and its loops only ever wait or complete
CallbackNeverFails ==
  \A e \in Hearings : listening[e].pc \in {"idle", "extend", "running", "done"}

C25_ListenerFaultIsolation ==
  /\ [](FailureReported /\ FailureEndsCategory /\ CallbackNeverFails)
  /\ [][EveryCategoryEvaluated]_vars

\* a message that matches a listener of each category: the handler of the
\* first category threw, the handler of the second one was called
C25_Witness ==
  /\ listening["h1"].pc = "done"
  /\ listening["h1"].msg = M("u1", "txt", W_hi \o <<" ">> \o W_no)
  /\ \E i \in RunsOf(1, "greet") : heard[i].result = "throw" /\ HandlerError(i + 1)
  /\ \E j \in RunsOf(1, "warn") : \A i \in RunsOf(1, "greet") : i < j

(***************************************************************************)
(* The ignore list, read from its two collections and its pending timers.  *)
(***************************************************************************)
IgnoreLists == {"guilds", "channels"}
\* a step that is a call of a method of the ignore list, and a step that
\* is not one (a timer fires, time passes)
ListCall == ignoreCalls' = ignoreCalls + 1
\* the timers pending for one id of one list
PendingFor(tms, l, id) == { tm \in tms : tm.list = l /\ tm.id = id }
\* the step removes the entry of id from list l
Removed(l, id) == ignored[l][id] # NoEntry /\ ignored'[l][id] = NoEntry

(***************************************************************************)
(* C26: an ignore window created with duration 0 is indefinite: the id     *)
(* stays in the ignore list until listenChannel/listenGuild(id) or clear() *)
(* is called; no timer that fires ever removes it, whatever calls of       *)
(* ignore, listen and clear came before it.                                *)
(***************************************************************************)
C26_ZeroDurationIsIndefinite ==
  [][\A l \in IgnoreLists : \A id \in DOMAIN ignored[l] :
       Removed(l, id) /\ ignored[l][id].duration = 0 => ListCall]_vars

(***************************************************************************)
(* C27: re-ignoring a channel or guild that is ignored with a pending      *)
(* expiry resets the window and cancels the pending expiry: after the      *)
(* call the only timer pending for the id is the one of the new window,    *)
(* due at the new duration after the call, and none when the new duration  *)
(* is 0; so the id is not removed at the old expiry time and at most one   *)
(* timer is pending per id.                                                *)
(***************************************************************************)
\* the step replaces the window of id, which had a timer, by a new one
ReIgnored(l, id) ==
  /\ ListCall
  /\ ignored[l][id] # NoEntry /\ ignored[l][id].timeout # 0
  /\ ignored'[l][id] # NoEntry
  /\ ignored'[l][id] # ignored[l][id]

C27_ReIgnoreResetsWindow ==
  [][\A l \in IgnoreLists : \A id \in DOMAIN ignored[l] :
       ReIgnored(l, id) =>
         /\ ignored'[l][id].start = now
         /\ PendingFor(ignoreTimers', l, id) =
              IF ignored'[l][id].duration = 0 THEN {}
              ELSE {[handle |-> ignored'[l][id].timeout, list |-> l, id |-> id,
                     due |-> now + ignored'[l][id].duration]}]_vars

(***************************************************************************)
(* C28: clear() cancels every pending expiry timer of every ignored guild  *)
(* and channel and then empties both lists: after the call no timer that   *)
(* was scheduled before it is pending, so none can remove an entry that a  *)
(* later ignore call creates.                                              *)
(***************************************************************************)
C28_ClearCancelsTimers ==
  [][Clear(MaxIgnoreCalls) =>
       /\ ignoreTimers' = {}
       /\ \A l \in IgnoreLists : \A id \in DOMAIN ignored[l] : ignored'[l][id] = NoEntry]_vars

(***************************************************************************)
(* What a call of stringMatch was given, read from the call.               *)
(***************************************************************************)
Matched == call.op = "match" /\ call.done
\* the stretch i+1..j of s is delimited by whitespace or by the ends of s
Delimited(s, i, j) ==
  /\ i = 0 \/ IsWs(s[i])
  /\ j = Len(s) \/ IsWs(s[j + 1])
\* the text t occurs in s as a whole word or phrase
OccursWhole(s, t) ==
  \E i \in 0..Len(s) : \E j \in i..Len(s) :
    SubSeq(s, i + 1, j) = t /\ Delimited(s, i, j)
\* the token names a class of COMMON_EXPRESSIONS, bare or in braces
NamesClass(token) == ExpressionKey(token) \in ExpressionNames
\* some word or phrase of the class named by the token occurs in s as a
\* whole word or phrase
ClassOccurs(s, token) ==
  \E i \in 0..Len(s) : \E j \in i..Len(s) :
    /\ MatchesInFull([expression |-> TRUE, source |-> ExpressionKey(token)],
                     SubSeq(s, i + 1, j))
    /\ Delimited(s, i, j)

FeedbackShown(r) == run[r].pc = "fbWait"
\* the events a step adds to the trace of run r
NewEvents(r) ==
  IF Len(run'[r].trace) > Len(run[r].trace) /\ run[r].pc # "idle"
  THEN SubSeq(run'[r].trace, Len(run[r].trace) + 1, Len(run'[r].trace))
  ELSE <<>>
\* the step in which the delete of the feedback of run r is attempted
DeleteAttempt(r) == run[r].pc = "fbWait" /\ run'[r] # run[r]

\* the delete is attempted once, not before the delay has passed
DeleteAfterDelay ==
  \A r \in Runs :
    DeleteAttempt(r) =>
      /\ now >= run[r].sentAt + FeedbackDelay
      /\ NewEvents(r) # <<>> /\ NewEvents(r)[1].ev = "feedbackDelete"
      /\ \A i \in 2..Len(NewEvents(r)) : NewEvents(r)[i].ev # "feedbackDelete"

\* a run that sent feedback does not throw and emits no 'error' afterwards
NoErrorAfterFeedback ==
  \A r \in Runs : \A i \in 1..Len(run[r].trace) :
    run[r].trace[i].ev = "feedback" =>
      /\ run[r].pc # "rejected"
      /\ \A j \in (i + 1)..Len(run[r].trace) : run[r].trace[j].ev # "error"

HasRecord(ts, c, u) == c \in DOMAIN ts /\ ts[c][u] # Absent
\* the eviction timers pending for (c, u)
Evictions(tms, c, u) == { tm \in tms : tm.cmd = c /\ tm.user = u }

(***************************************************************************)
(* C31: getTimeLeft for a registered command and a caller that has no      *)
(* cooldown record creates a record stamped with the current time,         *)
(* schedules one eviction of that record after the cooldown length of the  *)
(* command, and returns 0.                                                 *)
(***************************************************************************)
C31_FirstUseIsFree ==
  [][(/\ GetTimeLeft
      /\ call.commandName \in CommandNames
      /\ ~HasRecord(timestamps, call.commandName, call.userId))
     => /\ ~call'.threw
        /\ call'.left = 0
        /\ HasRecord(timestamps', call.commandName, call.userId)
        /\ timestamps'[call.commandName][call.userId] = now
        /\ Evictions(timers', call.commandName, call.userId) =
             Evictions(timers, call.commandName, call.userId) \cup
               {[cmd |-> call.commandName, user |-> call.userId,
                 due |-> now + commands[call.commandName].cooldown * 1000]}
        /\ Cardinality(Evictions(timers', call.commandName, call.userId)) =
             Cardinality(Evictions(timers, call.commandName, call.userId)) + 1]_vars

(***************************************************************************)
(* C32: at most one eviction timer is pending for a (command, caller);     *)
(* refreshing the timestamp with updateTimeLeft while a timer is pending   *)
(* neither cancels nor reschedules it; the pending timer fires at the time *)
(* it was scheduled for and removes the record.                            *)
(***************************************************************************)
AtMostOneEviction ==
  \A c \in Collections : \A u \in Users : Cardinality(Evictions(timers, c, u)) <= 1

UpdateKeepsTimers == UpdateTimeLeft => timers' = timers

\* a timer leaves the pending ones only by firing, when it is due, and the
\* record of its caller is gone with it, whenever it was stamped
EvictionAtItsTime ==
  \A tm \in timers :
    tm \notin timers' =>
      /\ now >= tm.due
      /\ now' = now
      /\ ~HasRecord(timestamps', tm.cmd, tm.user)

C32_OneEvictionTimer ==
  /\ []AtMostOneEviction
  /\ [][UpdateKeepsTimers /\ EvictionAtItsTime]_vars

\* the record was refreshed when its timer was due, and the timer, fired
\* after that, removed the refreshed record
C32_Witness ==
  /\ call.op = "updateTimeLeft" /\ ~call.threw
  /\ call.commandName = N_ping
  /\ call.updatedAt = TickMs
  /\ now = TickMs
  /\ ~HasRecord(timestamps, N_ping, call.userId)
  /\ Evictions(timers, N_ping, call.userId) = {}

(***************************************************************************)
(* C33: updateTimeLeft stamps the current time as the last use of          *)
(* (command, caller) and schedules the eviction of the record after the    *)
(* cooldown window of the command: every record it writes is eventually    *)
(* removed from the store without any further call.                        *)
(***************************************************************************)
UpdateStamps ==
  UpdateTimeLeft /\ ~call'.threw =>
    /\ HasRecord(timestamps', call.commandName, call.userId)
    /\ timestamps'[call.commandName][call.userId] = now

C33_RecordsAreEvicted ==
  /\ [][UpdateStamps]_vars
  /\ \A c \in Collections : \A u \in Users :
       HasRecord(timestamps, c, u) ~> ~HasRecord(timestamps, c, u)

\* the records that have an eviction pending are removed
TimedRecordsAreEvicted ==
  \A c \in Collections : \A u \in Users :
    (HasRecord(timestamps, c, u) /\ Evictions(timers, c, u) # {})
      ~> ~HasRecord(timestamps, c, u)

(***************************************************************************)
(* C37: getTimeLeft returns a value greater than 0 whenever a record       *)
(* exists and the current time is strictly before timestamp + cooldown, so *)
(* the cooldown gate lets no caller through while the record is unexpired: *)
(* rounding the remaining time to one decimal never turns an unexpired     *)
(* cooldown into 0.                                                        *)
(***************************************************************************)
C37_UnexpiredIsPositive ==
  (call.op = "remaining" /\ call.done) =>
    (call.at < call.stamp + commands[call.commandName].cooldown * 1000 => call.left > 0)

(***************************************************************************)
(* C35: a run that is dropped at a gate before the cooldown gate leaves    *)
(* the cooldown store unchanged: it creates no record, refreshes no        *)
(* timestamp and schedules no eviction; a record for (command, caller) is  *)
(* created only by a run that reaches the cooldown gate.                   *)
(***************************************************************************)
\* the run has come to the cooldown gate: it has asked for the time left
AtCooldownGate(rec) == At(rec, "getTimeLeft") # {}

\* a step of a run that has not come to the cooldown gate
BeforeGateKeepsStore ==
  \A r \in Runs : (Steps(r) /\ ~AtCooldownGate(run'[r])) => StoreUnchanged

\* a record appears only in a step of a run of that command and caller
\* that has come to the cooldown gate (a step of the run: its record
\* changes, or a message event starts it)
RecordOnlyAtGate ==
  \A c \in Collections : \A u \in Users :
    (~HasRecord(timestamps, c, u) /\ HasRecord(timestamps', c, u)) =>
      \E r \in Runs :
        /\ Steps(r) \/ delivered' # delivered
        /\ AtCooldownGate(run'[r])
        /\ run'[r].ctx.commandName = c /\ run'[r].ctx.userId = u

FailedCommit(rec) ==
  /\ HandlerFailed(rec) /\ Errors(rec, "handler") # {}
  /\ rec.commitAt # Absent
  /\ cooldownAmount(rec.ctx.commandName) > 0

CommitKept(rec) ==
  now < rec.commitAt + cooldownAmount(rec.ctx.commandName)
  => /\ HasRecord(timestamps, rec.ctx.commandName, rec.ctx.userId)
     /\ timestamps[rec.ctx.commandName][rec.ctx.userId] >= rec.commitAt

FollowerDropped(rec, other) ==
  (SameKey(rec, other) /\ rec.commitAt <= other.commitAt)
  => other.commitAt >= rec.commitAt + cooldownAmount(rec.ctx.commandName)

C36_FailedHandlerKeepsCooldown ==
  \A r \in Runs :
    FailedCommit(run[r])
    => /\ CommitKept(run[r])
       /\ \A q \in Runs \ {r} : FollowerDropped(run[r], run[q])

\* the part of C36 that the eviction timer does not touch: the step in
\* which the handler error is reported does not remove or move the record
FailureKeepsRecord ==
  \A r \in Runs :
    (~FailedCommit(run[r]) /\ FailedCommit(run'[r]) /\ timers' = timers)
    => /\ HasRecord(timestamps', run'[r].ctx.commandName, run'[r].ctx.userId)
          \/ ~HasRecord(timestamps, run'[r].ctx.commandName, run'[r].ctx.userId)
       /\ \/ timestamps' = timestamps
          \/ timestamps'[run'[r].ctx.commandName][run'[r].ctx.userId]
               = run'[r].commitAt

C36_NoRollback == [][FailureKeepsRecord]_vars


(***************************************************************************)
(* C34: after the construction of a ListenerRunner every category's list   *)
(* is in ascending order of priority, listeners of equal priority are in   *)
(* registration order, and every registered listener is exactly once in    *)
(* the list of its category, which is 'other' for a listener without a     *)
(* category; the lists hold nothing else.                                  *)
(***************************************************************************)
InOrder(a, b) ==
  \/ a.priority < b.priority
  \/ a.priority = b.priority /\ a.id < b.id

PlaceOf(l) == IF l.category = "" THEN "other" ELSE l.category

C34_ListenersOrdered ==
  (call.op = "construct" /\ call.done)
  => LET reg == call.registered
         m == call.mappedListeners
     IN /\ \A c \in DOMAIN m : \A i, j \in 1..Len(m[c]) :
             i < j => InOrder(m[c][i], m[c][j])
        /\ \A k \in 1..Len(reg) :
             /\ PlaceOf(reg[k]) \in DOMAIN m
             /\ Cardinality({ i \in 1..Len(m[PlaceOf(reg[k])]) :
                                m[PlaceOf(reg[k])][i] = reg[k] }) = 1
        /\ \A c \in DOMAIN m : \A i \in 1..Len(m[c]) :
             /\ \E k \in 1..Len(reg) : reg[k] = m[c][i]
             /\ PlaceOf(m[c][i]) = c

\* three listeners in 'other', one of them registered without a category,
\* two of equal priority registered after one of a higher priority value
C34_Witness ==
  /\ call.op = "construct" /\ call.done
  /\ Len(call.registered) = 3
  /\ call.registered[1].category = ""
  /\ "other" \in DOMAIN call.mappedListeners
  /\ Len(call.mappedListeners["other"]) = 3
  /\ call.mappedListeners["other"][1].id = 2
  /\ call.mappedListeners["other"][2].id = 3
  /\ call.mappedListeners["other"][3].id = 1
  /\ call.mappedListeners["other"][1].priority = call.mappedListeners["other"][2].priority


(***************************************************************************)
(* C39: the per-caller cooldown of a listener is kept per caller, not per  *)
(* guild.  After the handler of listener L ran for caller A at time t, in  *)
(* whatever guild, it does not run again for A before t + L.cooldown       *)
(* seconds in any guild, the guild of the first call or another one; and   *)
(* the clock of A does not keep L from running for another caller: the     *)
(* first listener of a category is called for a matching message of a      *)
(* caller whose own clock and whose guild's clock are not running, also    *)
(* while the clock of another caller is running.                           *)
(***************************************************************************)
CallerClockInGuilds(same) ==
  \A i, j \in 1..Len(heard) :
    /\ Again(i, j)
    /\ heard[i].author = heard[j].author
    /\ (GuildIn(heard[i].channel) = GuildIn(heard[j].channel)) = same
    => heard[j].at >= heard[i].at + ListenerOf(heard[i].listener).cooldown * 1000

ClockRunning(id, a) ==
  /\ ~Falsy(listenerCooldowns[id][a])
  /\ now < listenerCooldowns[id][a]

OtherCallerNotSuppressed ==
  \A e \in Hearings : \A id \in FirstListeners :
    /\ delivered' = delivered + 1
    /\ listening'[e].n = delivered'
    /\ stringMatch(listening'[e].msg.content, ListenerOf(id).words)
    /\ \E a \in Users \ {listening'[e].msg.author} : ClockRunning(id, a)
    /\ ClocksFree(id, listening'[e].msg)
    => \E i \in Added : heard'[i].ev = "run" /\ heard'[i].listener = id

C39_CallerClockAcrossGuilds ==
  /\ [](CallerClockInGuilds(TRUE) /\ CallerClockInGuilds(FALSE))
  /\ [][OtherCallerNotSuppressed]_vars

\* the parts of C39 taken one by one
C39_OtherGuild == CallerClockInGuilds(FALSE)
C39_OtherCallers == [][OtherCallerNotSuppressed]_vars
\* u1's clock of greet is running and greet is called for the owner
C39_OtherCallerHeard ==
  /\ ClockRunning("greet", "u1")
  /\ \E i \in HeardAt("run") :
       /\ heard[i].listener = "greet" /\ heard[i].author = "own"
       /\ heard[i].at = now


(***************************************************************************)
(* C38: whatever other messages are handled meanwhile, a handler that      *)
(* calls its listener's send helper after a suspension sends to the        *)
(* channel of the message the handler was called for.                      *)
(***************************************************************************)
C38_SendGoesToTrigger ==
  \A i \in HeardAt("send") : heard[i].result = heard[i].channel

\* as long as no other message reaches the listener between the call of
\* the handler and its send, the send goes to the channel of its message
SendUndisturbed ==
  \A e \in Hearings : \A c \in Categories :
    (HandlerSend(e, c) /\ listening[e].n = delivered)
    => heard'[Len(heard')].result = listening[e].msg.channel
C38_AloneSendsHome == [][SendUndisturbed]_vars

====
